---- MODULE Spec2Model ----
(***************************************************************************)
(* Voice Mirror: the real-time voice pipeline of                           *)
(* src-tauri/src/voice/pipeline.rs as a state machine.                     *)
(*                                                                         *)
(* Threads of the pipeline model (specification Spec):                     *)
(*   - the processing task (audio_processing_loop),                        *)
(*   - the control caller (VoiceEngine -> VoicePipeline: start_recording,  *)
(*     stop_recording, set_mode, stop_speaking, stop),                     *)
(*   - the speak calls (speak / speak_oneshot / finish_speaking), each     *)
(*     with its blocking playback worker (play_samples_rodio /             *)
(*     play_chunks_rodio).                                                 *)
(* Every step holds at most one access to a shared cell (atomic, mutex or  *)
(* event sink), so every interleaving of the code's shared accesses is a   *)
(* behaviour of the model.                                                 *)
(***************************************************************************)
EXTENDS Integers, Sequences, FiniteSets, TLC

VARIABLES
    \* PipelineShared (pipeline.rs:111-137)
    state, mode, running, tts_cancel, force_stop_recording,
    recording_buf, stt_engine, tts_engine,
    \* audio_processing_loop locals
    procPc, chunk, silence_start, procAborted, sttHeld, sttOut, procNext,
    \* control caller
    ctlPc, ctlOp, ctlArg, ctlEmits, ctlPre,
    \* speak calls and their playback workers
    sp, wk,
    \* observers of the event sink and of the cancellation of each speak call
    obs, cancelSeen,
    \* the cloud TTS adapter (EdgeTts, tts.rs) and its synthesize call in flight
    edge,
    \* a RingBuffer (pipeline.rs:155-214) and the observer of its calls
    ring, ringObs,
    \* a ToolCallAccumulator (providers/tool_calling.rs) over one response stream
    acc,
    \* an ApiProvider (providers/api.rs), its response stream and the upstream
    \* that executes the tool calls
    api,
    \* the byte stream of the adapter's WebSocket (tts.rs:654-796) and the
    \* receive loop of synthesize_ws
    ws,
    \* a VadProcessor (vad.rs:43-158) and the monotonic clock it reads
    vad,
    \* a text and what split_into_phrases (tts.rs:1605-1692) returns for it
    phr,
    \* the models directory and a call of ensure_model_exists (stt.rs:92-181)
    dl,
    \* a response body and the locals of the loop of stream_request that reads
    \* it (api.rs:484-569)
    sse

sharedVars == <<state, mode, running, tts_cancel, force_stop_recording,
                recording_buf, stt_engine, tts_engine>>
procVars == <<procPc, chunk, silence_start, procAborted, sttHeld, sttOut, procNext>>
ctlVars == <<ctlPc, ctlOp, ctlArg, ctlEmits>>
\* The pipeline, and the components that are modelled on their own.
pipeVars == <<sharedVars, procVars, ctlVars, ctlPre, sp, wk, obs, cancelSeen, edge>>
ringVars == <<ring, ringObs>>
utilVars == <<ws, vad, phr, dl, sse>>
auxVars == <<ringVars, acc, api, utilVars>>
vars == <<pipeVars, auxVars>>

\* ---------------------------------------------------------------- bounds

\* The largest ring buffer capacity, the most samples pushed between two
\* emptyings of the buffer, and the longest buffer handed to pop_slice.
MaxCap == 4
MaxPushed == 6
MaxPop == 3

\* The largest slot index a tool-call delta names, and the most deltas of one
\* response stream.
MaxIndex == 1
MaxDeltas == 3

\* The most messages pushed to the history of a provider, the most non-empty
\* user messages sent to it, and the most calls of check_tool_iteration_limit
\* between two resets of its counter.
MaxMessages == 24
MaxTurns == 2
MaxChecks == 12

\* The most content tokens of one response stream.
MaxTokens == 2

\* The most events counted of a stream task whose handle was overwritten.
MaxLate == 2

\* The latest reading of the clock of a VadProcessor, the highest energy
\* level of a frame, and the most frames between two resets.
MaxClock == 3
MaxEnergy == 2
MaxCount == 3

\* The most pieces (a word and what follows it) of a text given to
\* split_into_phrases, and the length of a long word.
MaxPieces == 4
LongWord == 20

\* The most lines of a response body.
MaxLines == 2

\* The most chunks of the body of a model file, and the most calls of
\* ensure_model_exists.
MaxChunks == 2
MaxCalls == 3

\* The longest repeating pattern of a frame payload, and the most frames the
\* server sends during one synthesize_ws.
MaxPeriod == 3
MaxFrames == 3

\* recording_buf is modelled by its length in chunks, saturating at MaxBuf.
MaxBuf == 1

\* The most phrases split_into_phrases yields for a spoken text.
MaxPhrases == 2

\* Speak calls that may be in flight at once (speak_blocking spawns a task each).
NumSpeakers == 2

Speakers == 1..NumSpeakers

\* Polls a speak call makes for the TTS engine slot before it goes on without
\* it (`for _ in 0..20`, pipeline.rs:1013).  What the other threads do between
\* two polls is not constrained, so the states the loop can end in are the same
\* for every positive number of polls.
MaxPolls == 2

\* A byte string (a Vec<u8>, a String, the rest of a stream) is held as its
\* length and a repeating pattern: byte i, counted from 0, is
\* pat[i mod Len(pat)].  A string of n <= Len(pat) bytes is the prefix of pat.
NoBytes ==
    [len |-> 0, pat |-> <<0>>]

\* The WebSocket stream and the receive loop of synthesize_ws:
\*   wire      the frame on the stream, not yet read: its header bytes and the
\*             bytes that follow (<<>>: nothing to read)
\*   opcode, sent  the arguments of the last ws_send_frame of the client
\*   frame     what the last ws_read_frame returned (<<>>: not called)
\*   pc        "loop" inside the receive loop, "ended" after it
\*   mp3_data  the audio collected by the loop
\*   written   the frames the loop wrote to the stream
\*   n         frames sent by the server so far
WsNone ==
    [wire |-> <<>>, opcode |-> 0, sent |-> NoBytes, frame |-> <<>>,
     pc |-> "loop", mp3_data |-> <<>>, written |-> <<>>, n |-> 0]

\* A text is the sequence of its characters, each a code point.  text is the
\* argument built so far, pieces the number of its pieces, and out what
\* split_into_phrases returned for it (<<>>: not called).
PhrNone ==
    [text |-> <<>>, pieces |-> 0, out |-> <<>>]

\* No response is being read.  While stream_request reads one (api.rs:484-569):
\*   body      the bytes of the response body, as units: "d" the prefix
\*             `data: `, "{" and "}" the JSON of a chunk before and after the
\*             text of its content delta, "x" an ASCII byte of that text, "c1"
\*             and "c2" the two bytes of a two-byte character of it, "D" the
\*             text [DONE], "n" a line feed
\*   pos       the bytes the stream has yielded so far
\*   leftover, full_response   the locals of that name, as characters
\*   tokens    the texts of the StreamToken events sent
\*   pc        "idle", "loop" (at stream.next(), 492), "ended"
SseNone ==
    [pc |-> "idle", body |-> <<>>, pos |-> 0, leftover |-> <<>>,
     full_response |-> <<>>, tokens |-> <<>>]

\* The models directory and one call of ensure_model_exists at a time.  A
\* file is <<>> (no file at the path) or <<f>> with f.size the chunks written
\* to it and f.body the chunks of the response body it is written from.
\*   model_path, tmp_path  the files at the two paths
\*   pc          the await the call is at ("idle": no call in flight)
\*   body        the chunks of the response body of the call
\*   downloaded  the chunks written by the call
\*   ret         what the last call returned;  calls: the calls so far
DlNone ==
    [model_path |-> <<>>, tmp_path |-> <<>>, pc |-> "idle", body |-> 0,
     downloaded |-> 0, ret |-> "none", calls |-> 0]

\* An f32 is a level 0..MaxEnergy or NaN, which is held as a value that is
\* none of the levels.
NaN == MaxEnergy + 1

\* Before VadProcessor::new.  The fields of the processor (vad.rs:43-59):
\* avg_energy is held as 0 (zero), 1 (positive) or NaN; silence_start is <<>>
\* or <<the Instant>>.  now is the reading of Instant::now(), and what an
\* observer records: op, the last call, and energy, the energy of the last
\* frame.
VadNone ==
    [made |-> FALSE, threshold |-> 0, silence_start |-> <<>>, is_speech |-> FALSE,
     avg_energy |-> 0, frame_count |-> 0, now |-> 0, op |-> "none", energy |-> 0]

\* ------------------------------------------------------ program constants

\* tokio::sync::mpsc::channel::<Vec<f32>>(4)
ChannelCap == 4

\* ws_read_frame: payload_len.min(10 * 1024 * 1024)
WsPayloadCap == 10485760


\* ------------------------------------------------------------ vocabulary

VoiceStates == {"idle", "listening", "recording", "processing", "speaking"}
VoiceModes == {"PushToTalk", "Toggle", "WakeWord"}

\* The state the pipeline rests in for a mode (pipeline.rs:834-837, 1247-1250).
RestState(m) ==
    IF m = "WakeWord" THEN "listening" ELSE "idle"

Min(a, b) == IF a < b THEN a ELSE b

\* ctlPre when the control caller is between calls, or when another thread has
\* written a shared cell or emitted an event since its call began.
NoSnap == <<>>

\* set_mode holds the mode mutex from its first step to its return (424-455).
ModeLocked == ctlPc \in {"sm_load", "sm_store", "sm_emit"}

\* -------------------------------------------------------- the event sink

\* app_handle.emit("voice-event", e): what an observer of the sink keeps.
\*   lastSC    the state named by the most recent StateChange ("none" before any)
\*   cycStart  a RecordingStart was emitted in the current recording cycle
\*   cycStop   a RecordingStop or Transcription was emitted in the current cycle
\*   heard     a Transcription was emitted in the current cycle
\*   stopReq   stop_recording stored force_stop_recording and no recording was
\*             force-stopped since (kept by the steps that store and consume it)
Observe(e) ==
    [obs EXCEPT
        !.lastSC = IF e[1] = "StateChange" THEN e[2] ELSE @,
        !.cycStart = IF e[1] = "RecordingStart" THEN TRUE ELSE @,
        !.cycStop = IF e[1] \in {"RecordingStop", "Transcription"} THEN TRUE ELSE @,
        !.heard = IF e[1] = "Transcription" THEN TRUE ELSE @]

Emit(e) ==
    obs' = Observe(e)

\* A speak call between invocations, and no playback worker.
\*   pc       position in speak / speak_oneshot / finish_speaking
\*   engine   the call holds the TTS engine taken from the slot
\*   nph      phrases still to synthesize
\*   polls    polls made while waiting for the engine slot
\*   next     next_state computed by finish_speaking; swapped: its CAS succeeded
\*   started  SpeakingStart emitted; ends: SpeakingEnd events emitted;
\*   sc       finish_speaking emitted its StateChange
\*   prev     the speak calls that were in progress when this call, finding the
\*            state Speaking, raised tts_cancel, and have not returned since
\*   synFail  a synthesis of this call failed and no Error event has reported
\*            it: "oneshot" in speak_oneshot, "phrase" in the streaming loop
SpIdle ==
    [pc |-> "idle", engine |-> FALSE, nph |-> 0, polls |-> 0, next |-> "none",
     swapped |-> FALSE, started |-> FALSE, ends |-> 0, sc |-> FALSE, prev |-> {},
     synFail |-> "none"]

\*   pc    position in play_samples_rodio / play_chunks_rodio
\*   chan  chunks queued in the PCM channel; tx, rx: its two ends are open
\*   sink  the rodio Sink holds audio that has not finished playing
\*   res   the worker's result
WkNone ==
    [pc |-> "none", chan |-> 0, tx |-> FALSE, rx |-> FALSE, sink |-> FALSE,
     res |-> "none"]

\* The EdgeTts adapter with no synthesize call in flight.
\*   pc         position in synthesize / synthesize_ws
\*   call       the speak call awaiting the synthesis
\*   cancelled  the adapter's own flag (tts.rs:398)
\*   got        mp3_data is not empty
\*   res        what synthesize returns
EdgeIdle ==
    [pc |-> "idle", call |-> 0, cancelled |-> FALSE, got |-> FALSE, res |-> "none"]

\* No RingBuffer constructed yet, and RingBuffer::new(capacity) (164-172).
RingNone ==
    [data |-> <<>>, write_pos |-> 0, read_pos |-> 0, count |-> 0, capacity |-> 0]

RingNew(capacity) ==
    [data |-> [i \in 0..(capacity - 1) |-> 0], write_pos |-> 0, read_pos |-> 0,
     count |-> 0, capacity |-> capacity]

\* What an observer of the buffer's calls keeps.  The samples pushed are
\* numbered 1, 2, .. from the last time the buffer was new or drained.
\*   n       samples pushed since then; popped: pop_slice was called since then
\*   fifo    the retained samples of a bounded queue that drops its oldest
\*   op, arg, ret, out  the last call, its argument, return value and output
\*   pre     fifo before the last call; preN, clean: n and ~popped before it
RingObsNone ==
    [n |-> 0, popped |-> FALSE, fifo |-> <<>>, op |-> "none", arg |-> 0, ret |-> 0,
     out |-> <<>>, pre |-> <<>>, preN |-> 0, clean |-> TRUE]

\* Strings are sequences of tokens, so that appending is concatenation and ""
\* is <<>>; an optional value is <<>> (absent) or <<v>>.
\* AccumulatedToolCall with empty fields (tool_calling.rs:176-180).
EmptySlot ==
    [id |-> <<>>, name |-> <<>>, arguments |-> <<>>]

\* ToolCallAccumulator::new (149-151), with what the response stream has
\* delivered and produced:
\*   calls  the slots;  log: the deltas accumulated so far, in arrival order
\*   pre    the slots when the stream ended;  ended: the stream has ended
\*   req    the ToolCallRequest of the StreamResult (api.rs:577-589), if some
AccNew ==
    [calls |-> <<>>, log |-> <<>>, pre |-> <<>>, ended |-> FALSE,
     req |-> [some |-> FALSE, calls |-> <<>>, raw |-> <<>>]]

\* The elements of a delta's tool_calls array: index and id, absent or present,
\* function.name and function.arguments, empty or not (an absent `function`,
\* name or arguments is skipped as an empty one is, 197-208).
Deltas ==
    [index : {<<>>} \cup {<<i>> : i \in 0..MaxIndex},
     id : {<<>>, <<<<>>>>, <<<<"a">>>>, <<<<"b">>>>},
     name : {<<<<>>>>, <<<<"f">>>>},
     args : {<<<<>>>>, <<<<"{k:">>>>, <<<<"1}">>>>}]

\* The identifiers Uuid::new_v4 may yield.
Uuids == {"u1", "u2"}

\* MAX_HISTORY_MESSAGES and MAX_TOOL_ITERATIONS (api.rs:87, 91).
MAX_HISTORY_MESSAGES == 20
MAX_TOOL_ITERATIONS == 10

\* No ToolCallRequest (StreamResult.tool_call_request = None).
NoRequest ==
    [some |-> FALSE, calls |-> <<>>, raw |-> <<>>]

\* No stream task.  A task spawned by send_message_internal (379-442) holds
\*   pc       where it stands: "request" (awaiting the response, 469-473),
\*            "next" (awaiting stream.next(), 493), "check" (the abort check, 495),
\*            "line" (the lines of a chunk, 521-567), "result" (571-594, 391),
\*            "response" (StreamEnd sent, 427-431), "err_abort" and "err_running"
\*            (the loads of the error branch, 435, 437), "done", "cancelled"
\*            (dropped at an await after handle.abort())
\*   aborted  handle.abort() was called on it
\*   native_tools, tools_enabled: as captured when it was spawned (357, 371-372)
\*   item     what stream.next() yielded;  full: full_response
\*   calls    tool_accumulator.has_calls();  finish: finish_reason
\* and what an observer of its events records:
\*   ev       the events it sent;  ok: stream_request returned Ok
\*   mark     the number of events it had sent when interrupt or stop was first
\*            called during it (-1: not called)
TaskNone ==
    [pc |-> "none", aborted |-> FALSE, native_tools |-> FALSE, tools_enabled |-> FALSE,
     item |-> "none", full |-> <<>>, calls |-> FALSE, finish |-> "none",
     ev |-> <<>>, ok |-> FALSE, mark |-> -1]

\* Before ApiProvider::new.  The fields of the provider (api.rs:126-148):
\*   system_prompt: is_some();  running;  messages;  current_tool_iteration
\*   native: supports_native_tools();  tools;  abort_flag
\*   handle: _stream_handle.is_some();  task: the task the handle was taken for
\*   earlier: the task whose handle the last send overwrote while it had not
\*           ended ("none", "live", "ended");  late: the events it has sent
\*           since then
\* the spawned stream_request task and the upstream's handling of its event:
\*   stream  a response stream is in flight
\*   req     the ToolCallRequest the upstream received
\*   stage   "none", "got" (ToolCalls received), "added" (assistant message
\*           added), "checked" (the limit check returned false)
\* and what an observer of the calls records:
\*   op, ret, out  the last call, what it returned and the event it emitted
\*   cut      the last entry of the send path removed messages
\*   pre      the history on the last entry of the send path, before
\*            limit_message_history
\*   pushed   messages pushed so far;  turns: non-empty user messages so far
\*   checks, follow  calls of check_tool_iteration_limit, and entries of the
\*           send path from inject_tool_results, since the last non-empty
\*           user message, start or stop
ApiNone ==
    [made |-> FALSE, system_prompt |-> FALSE, running |-> FALSE, messages |-> <<>>,
     current_tool_iteration |-> 0, stream |-> FALSE, req |-> NoRequest,
     stage |-> "none", op |-> "none", ret |-> "none", out |-> "none",
     cut |-> FALSE, pushed |-> 0, turns |-> 0, checks |-> 0, follow |-> 0,
     native |-> TRUE, tools |-> <<>>, abort_flag |-> FALSE, handle |-> FALSE,
     pre |-> <<>>, task |-> TaskNone, earlier |-> "none", late |-> 0]

\* ------------------------------------------------------------------ Init

\* The state after VoicePipeline::start returned: the engines may have failed to
\* initialise (slot None), the state follows the configured mode, and in WakeWord
\* mode StateChange{listening} has been emitted.
Init ==
    /\ mode \in VoiceModes
    /\ state = RestState(mode)
    /\ running = TRUE
    /\ tts_cancel = FALSE
    /\ force_stop_recording = FALSE
    /\ recording_buf = 0
    /\ stt_engine \in BOOLEAN
    /\ tts_engine \in BOOLEAN
    /\ procPc = "tick"
    /\ chunk = "none"
    /\ silence_start = "None"
    /\ procAborted = FALSE
    /\ sttHeld = FALSE
    /\ sttOut = "none"
    /\ procNext = "none"
    /\ ctlPc = "idle"
    /\ ctlOp = "none"
    /\ ctlArg = "none"
    /\ ctlEmits = <<>>
    /\ ctlPre = NoSnap
    /\ sp = [s \in Speakers |-> SpIdle]
    /\ wk = [s \in Speakers |-> WkNone]
    /\ obs = [lastSC |-> IF mode = "WakeWord" THEN "listening" ELSE "none",
              cycStart |-> FALSE, cycStop |-> FALSE, stopReq |-> FALSE,
              heard |-> FALSE]
    /\ cancelSeen = [s \in Speakers |-> FALSE]
    /\ edge = EdgeIdle
    /\ ring = RingNone
    /\ ringObs = RingObsNone
    /\ acc = AccNew
    /\ api = ApiNone
    /\ ws = WsNone
    /\ vad = VadNone
    /\ phr = PhrNone
    /\ dl = DlNone
    /\ sse = SseNone

\* A step of another thread that writes a shared cell or emits an event ends the
\* control call's undisturbed run.
Disturb ==
    ctlPre' = IF sharedVars' # sharedVars \/ obs' # obs THEN NoSnap ELSE ctlPre

\* The part of a speak call in which it answers tts_cancel: from its own reset
\* of the flag (1022) to its return.
InCall(r) ==
    r.pc \notin {"idle", "sp_cancel", "sp_poll", "sp_reset"}

\* cancelSeen[s]: a control call (start_recording barging in, stop_speaking,
\* stop) raised tts_cancel while call s was in that part.  Track is the record
\* kept over a step of the control caller, Keep over a step of a speak call.
Track ==
    LET raised == /\ tts_cancel'
                  /\ \/ ~tts_cancel
                     \/ ctlPc \in {"sr_cancel", "st_cancel"}
                     \/ ctlPc = "idle" /\ ctlOp' = "stop_speaking"
    IN  cancelSeen' = [s \in Speakers |->
                         InCall(sp'[s]) /\ (cancelSeen[s] \/ raised)]

Keep ==
    cancelSeen' = [s \in Speakers |-> InCall(sp'[s]) /\ cancelSeen[s]]

\* What a step of the processing task, of the control caller and of a speak call
\* or its playback worker leaves alone, and what the observers record of it.
\* The adapter's call ends when the speak call awaiting it goes on.
EdgeKeep ==
    edge' = IF edge.pc = "ret" /\ sp'[edge.call].pc # sp[edge.call].pc
            THEN EdgeIdle ELSE edge

ProcFrame ==
    Disturb /\ UNCHANGED <<sp, wk, cancelSeen, edge, auxVars>>

CtlFrame ==
    UNCHANGED <<sp, wk, edge, auxVars>> /\ Track

SpeakFrame ==
    Disturb /\ UNCHANGED <<procVars, ctlVars, auxVars>> /\ Keep /\ EdgeKeep

\* ------------------------------------------------- audio_processing_loop

\* `while shared.running.load(..)` at the head of the loop (pipeline.rs:683).
LoopHead ==
    IF running THEN "tick" ELSE "ended"

\* VadProcessor::update_state on a frame (vad.rs:94-112): speech clears the
\* silence timestamp, silence sets it only if it is not set.  "Now" is a
\* timestamp taken in the current tick, "Past" one taken in an earlier tick.
VadFrame(s, c) ==
    IF c = "speech" THEN "None" ELSE IF s = "None" THEN "Now" ELSE s

\* One tick (pipeline.rs:685-715, 852-856): sleep 40 ms, pop a chunk from the ring
\* (c = "none": nothing captured, `continue`), load the state and branch.  In
\* Listening the VAD sees the frame here (719).
ProcTick ==
    /\ procPc = "tick"
    /\ ~procAborted
    /\ \E c \in {"none", "speech", "silence"} :
        LET aged == IF silence_start = "Now" THEN "Past" ELSE silence_start IN
        IF c # "none" /\ state = "listening"
        THEN /\ chunk' = c
             /\ silence_start' = VadFrame(aged, c)
             /\ procPc' = "lis_mode"
        ELSE IF c # "none" /\ state = "recording"
        THEN /\ chunk' = c
             /\ silence_start' = aged
             /\ procPc' = "rec_append"
        ELSE /\ chunk' = "none"
             /\ silence_start' = aged
             /\ procPc' = LoopHead
    /\ UNCHANGED <<sharedVars, procAborted, sttHeld, sttOut, procNext, ctlVars, obs>>
    /\ ProcFrame

\* Listening branch: read the mode under its lock (721-728).
ProcLisMode ==
    /\ procPc = "lis_mode"
    /\ ~ModeLocked
    /\ IF chunk = "speech" /\ mode = "WakeWord"
       THEN procPc' = "lis_store" /\ chunk' = chunk
       ELSE procPc' = LoopHead /\ chunk' = "none"
    /\ UNCHANGED <<sharedVars, silence_start, procAborted, sttHeld, sttOut, procNext,
                   ctlVars, obs>>
    /\ ProcFrame

\* VAD-triggered recording: store Recording (730-732) ...
ProcLisStore ==
    /\ procPc = "lis_store"
    /\ state' = "recording"
    /\ procPc' = "lis_emit"
    /\ UNCHANGED <<mode, running, tts_cancel, force_stop_recording, recording_buf,
                   stt_engine, tts_engine, chunk, silence_start, procAborted, sttHeld,
                   sttOut, procNext, ctlVars, obs>>
    /\ ProcFrame

\* ... emit RecordingStart{continuous} and start the recording buffer with this
\* chunk (733-747).
ProcLisEmit ==
    /\ procPc = "lis_emit"
    /\ Emit(<<"RecordingStart", "continuous">>)
    /\ recording_buf' = 1
    /\ procPc' = LoopHead
    /\ chunk' = "none"
    /\ UNCHANGED <<state, mode, running, tts_cancel, force_stop_recording, stt_engine,
                   tts_engine, silence_start, procAborted, sttHeld, sttOut, procNext,
                   ctlVars>>
    /\ ProcFrame

\* Recording branch: append the chunk, then the VAD sees the frame (753-766).
ProcRecAppend ==
    /\ procPc = "rec_append"
    /\ recording_buf' = Min(recording_buf + 1, MaxBuf)
    /\ silence_start' = VadFrame(silence_start, chunk)
    /\ procPc' = "rec_swap"
    /\ chunk' = "none"
    /\ UNCHANGED <<state, mode, running, tts_cancel, force_stop_recording, stt_engine,
                   tts_engine, procAborted, sttHeld, sttOut, procNext, ctlVars, obs>>
    /\ ProcFrame

\* The Recording branch reading force_stop_recording with a load in place of the
\* swap.
ProcRecLoad ==
    /\ procPc = "rec_swap"
    /\ \E exceeded \in {FALSE, silence_start = "Past"} :
        /\ force_stop_recording' = force_stop_recording
        /\ IF force_stop_recording \/ exceeded
           THEN procPc' = "rec_store"
           ELSE procPc' = LoopHead
        /\ obs' = [obs EXCEPT !.stopReq = IF force_stop_recording THEN FALSE ELSE @]
    /\ UNCHANGED <<state, mode, running, tts_cancel, recording_buf, stt_engine,
                   tts_engine, chunk, silence_start, procAborted, sttHeld, sttOut,
                   procNext, ctlVars>>
    /\ ProcFrame

\* force_stop_recording.swap(false) and vad.silence_exceeded(timeout) (769-770).
\* A timestamp of an earlier tick may or may not be older than the timeout; one
\* taken in this tick is not.
ProcRecSwap ==
    /\ procPc = "rec_swap"
    /\ \E exceeded \in {FALSE, silence_start = "Past"} :
        /\ force_stop_recording' = FALSE
        /\ IF force_stop_recording \/ exceeded
           THEN procPc' = "rec_store"
           ELSE procPc' = LoopHead
        /\ obs' = [obs EXCEPT !.stopReq = IF force_stop_recording THEN FALSE ELSE @]
    /\ UNCHANGED <<state, mode, running, tts_cancel, recording_buf, stt_engine,
                   tts_engine, chunk, silence_start, procAborted, sttHeld, sttOut,
                   procNext, ctlVars>>
    /\ ProcFrame

\* Recording -> Processing (776-778).
ProcRecStore ==
    /\ procPc = "rec_store"
    /\ state' = "processing"
    /\ procPc' = "rec_emit"
    /\ UNCHANGED <<mode, running, tts_cancel, force_stop_recording, recording_buf,
                   stt_engine, tts_engine, chunk, silence_start, procAborted, sttHeld,
                   sttOut, procNext, ctlVars, obs>>
    /\ ProcFrame

\* RecordingStop, then StateChange{processing} (779-787).
ProcRecEmit ==
    /\ procPc = "rec_emit"
    /\ obs' = [Observe(<<"RecordingStop", "">>) EXCEPT !.lastSC = "processing"]
    /\ procPc' = "rec_take"
    /\ UNCHANGED <<sharedVars, chunk, silence_start, procAborted, sttHeld, sttOut,
                   procNext, ctlVars>>
    /\ ProcFrame

\* Drain the ring, take the recording buffer (792-825), and enter
\* run_stt_and_emit, which returns at once on empty audio (864-866).
ProcRecTake ==
    /\ procPc = "rec_take"
    /\ \E remaining \in {0, 1} :
        procPc' = IF recording_buf + remaining = 0 THEN "fin_mode" ELSE "stt_take"
    /\ recording_buf' = 0
    /\ UNCHANGED <<state, mode, running, tts_cancel, force_stop_recording, stt_engine,
                   tts_engine, chunk, silence_start, procAborted, sttHeld, sttOut,
                   procNext, ctlVars, obs>>
    /\ ProcFrame

\* run_stt_and_emit: take the engine out of its slot (876-900).
ProcSttTake ==
    /\ procPc = "stt_take"
    /\ stt_engine' = FALSE
    /\ sttHeld' = stt_engine
    /\ IF stt_engine
       THEN procPc' = "stt_run" /\ sttOut' = "none"
       ELSE procPc' = "stt_emit" /\ sttOut' = "noengine"
    /\ UNCHANGED <<state, mode, running, tts_cancel, force_stop_recording,
                   recording_buf, tts_engine, chunk, silence_start, procAborted,
                   procNext, ctlVars, obs>>
    /\ ProcFrame

\* The blocking worker returns (903-907): trimmed text, empty text, a
\* transcription error, or a panic of the worker, in which the engine moved into
\* the closure is dropped.
ProcSttRun ==
    /\ procPc = "stt_run"
    /\ ~procAborted
    /\ \E out \in {"text", "empty", "err", "panic"} :
        /\ sttOut' = out
        /\ sttHeld' = (out # "panic")
        /\ procPc' = IF out = "panic" THEN "stt_emit" ELSE "stt_restore"
    /\ UNCHANGED <<sharedVars, chunk, silence_start, procAborted, procNext, ctlVars,
                   obs>>
    /\ ProcFrame

\* Put the engine back (913-922, 934-942).
ProcSttRestore ==
    /\ procPc = "stt_restore"
    /\ stt_engine' = TRUE
    /\ sttHeld' = FALSE
    /\ IF sttOut = "empty"
       THEN procPc' = "fin_mode" /\ sttOut' = "none"
       ELSE procPc' = "stt_emit" /\ sttOut' = sttOut
    /\ UNCHANGED <<state, mode, running, tts_cancel, force_stop_recording,
                   recording_buf, tts_engine, chunk, silence_start, procAborted,
                   procNext, ctlVars, obs>>
    /\ ProcFrame

\* Transcription{text} (924-930) or Error{..} (893-898, 943-948, 952-957).
ProcSttEmit ==
    /\ procPc = "stt_emit"
    /\ Emit(IF sttOut = "text" THEN <<"Transcription", "text">> ELSE <<"Error", sttOut>>)
    /\ sttOut' = "none"
    /\ procPc' = "fin_mode"
    /\ UNCHANGED <<sharedVars, chunk, silence_start, procAborted, sttHeld, procNext,
                   ctlVars>>
    /\ ProcFrame

\* The return after STT taking every mode for PushToTalk.
ProcFinMode_to_idle ==
    /\ procPc = "fin_mode"
    /\ ~ModeLocked
    /\ procNext' = "idle"
    /\ procPc' = "fin_store"
    /\ UNCHANGED <<sharedVars, chunk, silence_start, procAborted, sttHeld, sttOut,
                   ctlVars, obs>>
    /\ ProcFrame

\* Back in the loop: read the mode (833-837).
ProcFinMode ==
    /\ procPc = "fin_mode"
    /\ ~ModeLocked
    /\ procNext' = RestState(mode)
    /\ procPc' = "fin_store"
    /\ UNCHANGED <<sharedVars, chunk, silence_start, procAborted, sttHeld, sttOut,
                   ctlVars, obs>>
    /\ ProcFrame

\* Store the resting state (838-840).
ProcFinStore ==
    /\ procPc = "fin_store"
    /\ state' = procNext
    /\ procPc' = "fin_emit"
    /\ UNCHANGED <<mode, running, tts_cancel, force_stop_recording, recording_buf,
                   stt_engine, tts_engine, chunk, silence_start, procAborted, sttHeld,
                   sttOut, procNext, ctlVars, obs>>
    /\ ProcFrame

\* StateChange{next_state}, vad.reset() (841-848): the recording cycle is over.
ProcFinEmit ==
    /\ procPc = "fin_emit"
    /\ obs' = [Observe(<<"StateChange", procNext>>) EXCEPT
                  !.cycStart = FALSE, !.cycStop = FALSE, !.heard = FALSE]
    /\ silence_start' = "None"
    /\ procNext' = "none"
    /\ procPc' = LoopHead
    /\ UNCHANGED <<sharedVars, chunk, procAborted, sttHeld, sttOut, ctlVars>>
    /\ ProcFrame

\* handle.abort() takes effect at the task's next await: the tick's sleep (685)
\* or the join of the blocking STT worker (907), whose result, the engine with it,
\* is then dropped.
ProcAbort ==
    /\ procAborted
    /\ procPc \in {"tick", "stt_run"}
    /\ procPc' = "ended"
    /\ sttHeld' = FALSE
    /\ UNCHANGED <<sharedVars, chunk, silence_start, procAborted, sttOut, procNext,
                   ctlVars, obs>>
    /\ ProcFrame

\* The processing task while the pipeline runs ...
ProcRun ==
    \/ ProcTick \/ ProcLisMode \/ ProcLisStore \/ ProcLisEmit
    \/ ProcRecAppend \/ ProcRecSwap \/ ProcRecStore \/ ProcRecEmit \/ ProcRecTake
    \/ ProcSttTake \/ ProcSttRun \/ ProcSttRestore \/ ProcSttEmit
    \/ ProcFinMode \/ ProcFinStore \/ ProcFinEmit

\* ... and when stop may abort it.
ProcNext ==
    \/ ProcRun
    \/ ProcAbort

\* ----------------------------------------------------- the control caller
\* VoiceEngine (voice/mod.rs:222-256) hands each call to the pipeline; set_mode
\* takes the engine by &mut, so the control calls are made one at a time.  ctlPre
\* is the shared state at the call's first step, ctlEmits what the call emitted.

CtlBegin(op, arg, pc) ==
    /\ ctlOp' = op
    /\ ctlArg' = arg
    /\ ctlPc' = pc
    /\ ctlEmits' = <<>>
    /\ ctlPre' = sharedVars

CtlEmit(e) ==
    /\ Emit(e)
    /\ ctlEmits' = Append(ctlEmits, e)

\* start_recording: load the state and branch (463-477).
StartRecording ==
    /\ ctlPc = "idle"
    /\ CtlBegin("start_recording", state,
                IF state \in {"idle", "listening"} THEN "br_clear"
                ELSE IF state = "speaking" THEN "sr_cancel" ELSE "ret")
    /\ UNCHANGED <<sharedVars, procVars, obs>>
    /\ CtlFrame

\* Barge-in: raise tts_cancel (471).
StartRecordingCancel ==
    /\ ctlPc = "sr_cancel"
    /\ tts_cancel' = TRUE
    /\ ctlPc' = "br_clear"
    /\ UNCHANGED <<state, mode, running, force_stop_recording, recording_buf,
                   stt_engine, tts_engine, procVars, ctlOp, ctlArg, ctlEmits, ctlPre,
                   obs>>
    /\ CtlFrame

\* begin_recording without the reset of force_stop_recording.
BeginRecordingKeepFlag ==
    /\ ctlPc \in {"br_clear", "br_store", "br_emit"}
    /\ CASE ctlPc = "br_clear" ->
              /\ recording_buf' = 0
              /\ force_stop_recording' = force_stop_recording
              /\ ctlPc' = "br_store"
              /\ UNCHANGED <<state, obs, ctlEmits>>
         [] ctlPc = "br_store" ->
              /\ state' = "recording"
              /\ ctlPc' = "br_emit"
              /\ UNCHANGED <<force_stop_recording, recording_buf, obs, ctlEmits>>
         [] ctlPc = "br_emit" ->
              /\ obs' = [Observe(<<"RecordingStart", "manual">>) EXCEPT
                            !.lastSC = "recording"]
              /\ ctlEmits' = <<<<"RecordingStart", "manual">>,
                               <<"StateChange", "recording">>>>
              /\ ctlPc' = "ret"
              /\ UNCHANGED <<state, force_stop_recording, recording_buf>>
    /\ UNCHANGED <<mode, running, tts_cancel, stt_engine, tts_engine, procVars, ctlOp,
                   ctlArg, ctlPre>>
    /\ CtlFrame

\* begin_recording (481-502): clear the buffer and reset force_stop_recording,
\* store Recording, emit RecordingStart{manual} and StateChange{recording}.
BeginRecording ==
    /\ ctlPc \in {"br_clear", "br_store", "br_emit"}
    /\ CASE ctlPc = "br_clear" ->
              /\ recording_buf' = 0
              /\ force_stop_recording' = FALSE
              /\ ctlPc' = "br_store"
              /\ UNCHANGED <<state, obs, ctlEmits>>
         [] ctlPc = "br_store" ->
              /\ state' = "recording"
              /\ ctlPc' = "br_emit"
              /\ UNCHANGED <<force_stop_recording, recording_buf, obs, ctlEmits>>
         [] ctlPc = "br_emit" ->
              /\ obs' = [Observe(<<"RecordingStart", "manual">>) EXCEPT
                            !.lastSC = "recording"]
              /\ ctlEmits' = <<<<"RecordingStart", "manual">>,
                               <<"StateChange", "recording">>>>
              /\ ctlPc' = "ret"
              /\ UNCHANGED <<state, force_stop_recording, recording_buf>>
    /\ UNCHANGED <<mode, running, tts_cancel, stt_engine, tts_engine, procVars, ctlOp,
                   ctlArg, ctlPre>>
    /\ CtlFrame

\* stop_recording: load the state (509-510) ...
StopRecording ==
    /\ ctlPc = "idle"
    /\ CtlBegin("stop_recording", state,
                IF state = "recording" THEN "stp_store" ELSE "ret")
    /\ UNCHANGED <<sharedVars, procVars, obs>>
    /\ CtlFrame

\* ... and, if it was Recording, store force_stop_recording (512).
StopRecordingStore ==
    /\ ctlPc = "stp_store"
    /\ force_stop_recording' = TRUE
    /\ obs' = [obs EXCEPT !.stopReq = TRUE]
    /\ ctlPc' = "ret"
    /\ UNCHANGED <<state, mode, running, tts_cancel, recording_buf, stt_engine,
                   tts_engine, procVars, ctlOp, ctlArg, ctlEmits, ctlPre>>
    /\ CtlFrame

\* The state set_mode moves to, if any (432-440).
SetModeTarget(current_state, m) ==
    IF current_state = "listening" /\ m \in {"PushToTalk", "Toggle"} THEN "idle"
    ELSE IF current_state = "idle" /\ m = "WakeWord" THEN "listening"
    ELSE "none"

\* set_mode: lock the mode cell and write it (424-427) ...
SetMode ==
    /\ ctlPc = "idle"
    /\ \E m \in VoiceModes :
        /\ mode' = m
        /\ CtlBegin("set_mode", "none", "sm_load")
    /\ UNCHANGED <<state, running, tts_cancel, force_stop_recording, recording_buf,
                   stt_engine, tts_engine, procVars, obs>>
    /\ CtlFrame

\* ... load the state and pick the new one (431-440) ...
SetModeLoad ==
    /\ ctlPc = "sm_load"
    /\ ctlArg' = SetModeTarget(state, mode)
    /\ ctlPc' = IF SetModeTarget(state, mode) = "none" THEN "ret" ELSE "sm_store"
    /\ UNCHANGED <<sharedVars, procVars, ctlOp, ctlEmits, ctlPre, obs>>
    /\ CtlFrame

\* ... store it (443) ...
SetModeStore ==
    /\ ctlPc = "sm_store"
    /\ state' = ctlArg
    /\ ctlPc' = "sm_emit"
    /\ UNCHANGED <<mode, running, tts_cancel, force_stop_recording, recording_buf,
                   stt_engine, tts_engine, procVars, ctlOp, ctlArg, ctlEmits, ctlPre,
                   obs>>
    /\ CtlFrame

\* ... and emit StateChange (444-449).
SetModeEmit ==
    /\ ctlPc = "sm_emit"
    /\ CtlEmit(<<"StateChange", ctlArg>>)
    /\ ctlPc' = "ret"
    /\ UNCHANGED <<sharedVars, procVars, ctlOp, ctlArg, ctlPre>>
    /\ CtlFrame

\* stop_speaking (519-522).
StopSpeaking ==
    /\ ctlPc = "idle"
    /\ tts_cancel' = TRUE
    /\ CtlBegin("stop_speaking", "none", "ret")
    /\ UNCHANGED <<state, mode, running, force_stop_recording, recording_buf,
                   stt_engine, tts_engine, procVars, obs>>
    /\ CtlFrame

\* The call returns.
CtlReturn ==
    /\ ctlPc = "ret"
    /\ ctlPc' = "idle"
    /\ ctlOp' = "none"
    /\ ctlArg' = "none"
    /\ ctlEmits' = <<>>
    /\ ctlPre' = NoSnap
    /\ UNCHANGED <<sharedVars, procVars, obs>>
    /\ CtlFrame

\* stop (392-407): clear running, raise tts_cancel, emit Stopping, abort the
\* processing task.  The pipeline is consumed: no control call follows.
Stop ==
    /\ ctlPc \in {"idle", "st_cancel", "st_emit", "st_abort"}
    /\ CASE ctlPc = "idle" ->
              /\ running' = FALSE
              /\ ctlPc' = "st_cancel"
              /\ UNCHANGED <<tts_cancel, procAborted, obs>>
         [] ctlPc = "st_cancel" ->
              /\ tts_cancel' = TRUE
              /\ ctlPc' = "st_emit"
              /\ UNCHANGED <<running, procAborted, obs>>
         [] ctlPc = "st_emit" ->
              /\ Emit(<<"Stopping", "">>)
              /\ ctlPc' = "st_abort"
              /\ UNCHANGED <<running, tts_cancel, procAborted>>
         [] ctlPc = "st_abort" ->
              /\ procAborted' = TRUE
              /\ ctlPc' = "stopped"
              /\ UNCHANGED <<running, tts_cancel, obs>>
    /\ ctlOp' = "stop"
    /\ UNCHANGED <<state, mode, force_stop_recording, recording_buf, stt_engine,
                   tts_engine, procPc, chunk, silence_start, sttHeld, sttOut, procNext,
                   ctlArg, ctlEmits, ctlPre>>
    /\ CtlFrame

CtlNext ==
    \/ StartRecording \/ StartRecordingCancel \/ BeginRecording
    \/ StopRecording \/ StopRecordingStore
    \/ SetMode \/ SetModeLoad \/ SetModeStore \/ SetModeEmit
    \/ StopSpeaking \/ CtlReturn \/ Stop

\* ------------------------------------------------------------------ speak

\* The pipeline handle exists until stop consumes it (voice/mod.rs:200-204).
Stopping == ctlPc \in {"st_cancel", "st_emit", "st_abort", "stopped"}

SpSet(s, r) ==
    sp' = [sp EXCEPT ![s] = r]

\* take_tts_engine (984-992) by call s: the slot's engine, if any, moves to s.
TakeTts(s) ==
    /\ tts_engine' = FALSE
    /\ SpSet(s, [sp[s] EXCEPT !.engine = tts_engine,
                              !.pc = IF tts_engine THEN "sp_precheck" ELSE "emit_err"])

\* restore_tts_engine (1226-1235) by call s, which goes on at pc.
RestoreTts(s, pc) ==
    /\ tts_engine' = TRUE
    /\ SpSet(s, [sp[s] EXCEPT !.engine = FALSE, !.pc = pc])

\* speak is invoked with a non-blank text (1001-1009): load the state.  The free
\* slot of lowest index stands for the new task.
Speak(s) ==
    /\ sp[s].pc = "idle"
    /\ \A t \in Speakers : t < s => sp[t].pc # "idle"
    /\ ~Stopping
    /\ SpSet(s, [sp[s] EXCEPT !.pc = IF state = "speaking" THEN "sp_cancel"
                                     ELSE "sp_reset"])
    /\ UNCHANGED <<sharedVars, wk, obs>>
    /\ SpeakFrame

\* Already speaking: raise tts_cancel (1011).
SpeakCancel(s) ==
    /\ sp[s].pc = "sp_cancel"
    /\ tts_cancel' = TRUE
    /\ SpSet(s, [sp[s] EXCEPT !.pc = "sp_poll",
                              !.prev = {t \in Speakers \ {s} : sp[t].started}])
    /\ UNCHANGED <<state, mode, running, force_stop_recording, recording_buf,
                   stt_engine, tts_engine, wk, obs>>
    /\ SpeakFrame

\* One of up to MaxPolls polls for the engine slot (1013-1018).
SpeakPoll(s) ==
    /\ sp[s].pc = "sp_poll"
    /\ IF tts_engine \/ sp[s].polls + 1 >= MaxPolls
       THEN SpSet(s, [sp[s] EXCEPT !.pc = "sp_reset", !.polls = 0])
       ELSE SpSet(s, [sp[s] EXCEPT !.polls = @ + 1])
    /\ UNCHANGED <<sharedVars, wk, obs>>
    /\ SpeakFrame

\* Reset the cancellation flag for the new request (1022).
SpeakReset(s) ==
    /\ sp[s].pc = "sp_reset"
    /\ tts_cancel' = FALSE
    /\ SpSet(s, [sp[s] EXCEPT !.pc = "sp_state"])
    /\ UNCHANGED <<state, mode, running, force_stop_recording, recording_buf,
                   stt_engine, tts_engine, wk, obs>>
    /\ SpeakFrame

\* set_speaking_state: store Speaking (966-968) ...
SetSpeakingState(s) ==
    /\ sp[s].pc = "sp_state"
    /\ state' = "speaking"
    /\ SpSet(s, [sp[s] EXCEPT !.pc = "sp_emit"])
    /\ UNCHANGED <<mode, running, tts_cancel, force_stop_recording, recording_buf,
                   stt_engine, tts_engine, wk, obs>>
    /\ SpeakFrame

\* ... emit StateChange{speaking} and SpeakingStart (969-980).
SetSpeakingEmit(s) ==
    /\ sp[s].pc = "sp_emit"
    /\ obs' = [Observe(<<"SpeakingStart", "">>) EXCEPT !.lastSC = "speaking"]
    /\ SpSet(s, [sp[s] EXCEPT !.pc = "sp_take", !.started = TRUE])
    /\ UNCHANGED <<sharedVars, wk>>
    /\ SpeakFrame

\* Take the TTS engine (1028-1041).
SpeakTake(s) ==
    /\ sp[s].pc = "sp_take"
    /\ TakeTts(s)
    /\ UNCHANGED <<state, mode, running, tts_cancel, force_stop_recording,
                   recording_buf, stt_engine, wk, obs>>
    /\ SpeakFrame

\* Check cancellation before synthesis (1044-1049), split the text (1056; never
\* empty for a non-blank text, tts.rs:1605-1692); one phrase goes the oneshot way
\* (1065-1069), more spawn the playback worker on a bounded channel (1078-1090).
SpeakSplit(s) ==
    /\ sp[s].pc = "sp_precheck"
    /\ IF tts_cancel
       THEN SpSet(s, [sp[s] EXCEPT !.pc = "restore_fin"]) /\ UNCHANGED wk
       ELSE \E n \in 1..MaxPhrases :
              IF n = 1
              THEN SpSet(s, [sp[s] EXCEPT !.pc = "one_synth"]) /\ UNCHANGED wk
              ELSE /\ SpSet(s, [sp[s] EXCEPT !.pc = "str_check", !.nph = n])
                   /\ wk' = [wk EXCEPT ![s] = [WkNone EXCEPT !.pc = "open",
                                                             !.tx = TRUE, !.rx = TRUE]]
    /\ UNCHANGED <<sharedVars, obs>>
    /\ SpeakFrame

\* speak_oneshot: synthesize returns (1159-1180, 1210-1219): no samples or an
\* error restore the engine; samples are played unless tts_cancel is set.
OneshotSynth(s) ==
    /\ sp[s].pc = "one_synth"
    /\ \E r \in {"ok", "empty", "err"} :
        IF r = "ok"
        THEN /\ IF tts_cancel
                THEN SpSet(s, [sp[s] EXCEPT !.pc = "restore_fin"]) /\ UNCHANGED wk
                ELSE /\ SpSet(s, [sp[s] EXCEPT !.pc = "wait"])
                     /\ wk' = [wk EXCEPT ![s] = [WkNone EXCEPT !.pc = "open1"]]
             /\ UNCHANGED tts_engine
        ELSE /\ tts_engine' = TRUE
             /\ SpSet(s, [sp[s] EXCEPT
                    !.engine = FALSE,
                    !.pc = IF r = "err" THEN "emit_err" ELSE "fin_mode",
                    !.synFail = IF r = "err" THEN "oneshot" ELSE @])
             /\ UNCHANGED wk
    /\ UNCHANGED <<state, mode, running, tts_cancel, force_stop_recording,
                   recording_buf, stt_engine, obs>>
    /\ SpeakFrame

\* Restore the engine on a cancelled path (1046, 1178), then finish_speaking.
RestoreAndFinish(s) ==
    /\ sp[s].pc = "restore_fin"
    /\ RestoreTts(s, "fin_mode")
    /\ UNCHANGED <<state, mode, running, tts_cancel, force_stop_recording,
                   recording_buf, stt_engine, wk, obs>>
    /\ SpeakFrame

\* The phrase following one handled with n left (the `for` of 1093).
NextPhrase(n) ==
    IF n = 0 THEN "str_drop" ELSE "str_check"

\* Streaming loop: the cancel check before each phrase (1094-1097).
StreamCheck(s) ==
    /\ sp[s].pc = "str_check"
    /\ SpSet(s, [sp[s] EXCEPT !.pc = IF tts_cancel THEN "str_drop" ELSE "str_synth"])
    /\ UNCHANGED <<sharedVars, wk, obs>>
    /\ SpeakFrame

\* engine.synthesize(phrase) returns (1099-1119): samples go to the channel, no
\* samples or an error (logged only) skip the phrase.
StreamSynth(s) ==
    /\ sp[s].pc = "str_synth"
    /\ \E r \in {"ok", "empty", "err"} :
        IF r = "ok"
        THEN SpSet(s, [sp[s] EXCEPT !.pc = "str_send"])
        ELSE SpSet(s, [sp[s] EXCEPT !.nph = @ - 1, !.pc = NextPhrase(sp[s].nph - 1),
                                    !.synFail = IF r = "err" THEN "phrase" ELSE @])
    /\ UNCHANGED <<sharedVars, wk, obs>>
    /\ SpeakFrame

\* chunk_tx.send(samples).await (1107-1110): fails if the receiver is gone, waits
\* while the channel is full.
StreamSend(s) ==
    /\ sp[s].pc = "str_send"
    /\ IF ~wk[s].rx
       THEN SpSet(s, [sp[s] EXCEPT !.pc = "str_drop"]) /\ UNCHANGED wk
       ELSE /\ wk[s].chan < ChannelCap
            /\ wk' = [wk EXCEPT ![s].chan = @ + 1]
            /\ SpSet(s, [sp[s] EXCEPT !.nph = @ - 1, !.pc = NextPhrase(sp[s].nph - 1)])
    /\ UNCHANGED <<sharedVars, obs>>
    /\ SpeakFrame

\* drop(chunk_tx) and restore_tts_engine (1123-1126), before the worker is joined.
StreamDrop(s) ==
    /\ sp[s].pc = "str_drop"
    /\ wk' = [wk EXCEPT ![s].tx = FALSE]
    /\ RestoreTts(s, "wait")
    /\ UNCHANGED <<state, mode, running, tts_cancel, force_stop_recording,
                   recording_buf, stt_engine, obs>>
    /\ SpeakFrame

\* The playback worker is joined: playback_handle.await (1128-1144), or
\* spawn_blocking(..).await and restore_tts_engine in speak_oneshot (1183-1208).
\* A playback error is emitted as Error, a panic is logged.
SpeakJoin(s) ==
    /\ sp[s].pc = "wait"
    /\ wk[s].pc = "done"
    /\ wk' = [wk EXCEPT ![s] = WkNone]
    /\ IF sp[s].engine
       THEN RestoreTts(s, IF wk[s].res = "err" THEN "emit_err" ELSE "fin_mode")
       ELSE /\ SpSet(s, [sp[s] EXCEPT !.pc = IF wk[s].res = "err" THEN "emit_err"
                                             ELSE "fin_mode"])
            /\ UNCHANGED tts_engine
    /\ UNCHANGED <<state, mode, running, tts_cancel, force_stop_recording,
                   recording_buf, stt_engine, obs>>
    /\ SpeakFrame

\* speak returning after its Error event without calling finish_speaking.
SpeakEmitErrorReturn(s) ==
    /\ sp[s].pc = "emit_err"
    /\ Emit(<<"Error", "tts">>)
    /\ SpSet(s, [sp[s] EXCEPT !.pc = "ret",
                              !.synFail = IF @ = "oneshot" THEN "none" ELSE @])
    /\ UNCHANGED <<sharedVars, wk>>
    /\ SpeakFrame

\* Error{..}: no engine (1032-1037), synthesis failed in speak_oneshot
\* (1213-1218), playback error (1134-1139, 1200-1205); finish_speaking follows.
SpeakEmitError(s) ==
    /\ sp[s].pc = "emit_err"
    /\ Emit(<<"Error", "tts">>)
    /\ SpSet(s, [sp[s] EXCEPT !.pc = "fin_mode",
                              !.synFail = IF @ = "oneshot" THEN "none" ELSE @])
    /\ UNCHANGED <<sharedVars, wk>>
    /\ SpeakFrame

\* finish_speaking: read the mode (1246-1250) ...
FinishMode(s) ==
    /\ sp[s].pc = "fin_mode"
    /\ ~ModeLocked
    /\ SpSet(s, [sp[s] EXCEPT !.pc = "fin_cas", !.next = RestState(mode)])
    /\ UNCHANGED <<sharedVars, wk, obs>>
    /\ SpeakFrame

\* finish_speaking with a plain store of next_state in place of the
\* compare_exchange.
FinishStore(s) ==
    /\ sp[s].pc = "fin_cas"
    /\ state' = sp[s].next
    /\ SpSet(s, [sp[s] EXCEPT !.pc = "fin_emit", !.swapped = TRUE])
    /\ UNCHANGED <<mode, running, tts_cancel, force_stop_recording, recording_buf,
                   stt_engine, tts_engine, wk, obs>>
    /\ SpeakFrame

\* ... compare_exchange(Speaking, next_state) (1254-1259) ...
FinishCas(s) ==
    /\ sp[s].pc = "fin_cas"
    /\ state' = IF state = "speaking" THEN sp[s].next ELSE state
    /\ SpSet(s, [sp[s] EXCEPT !.pc = "fin_emit", !.swapped = (state = "speaking")])
    /\ UNCHANGED <<mode, running, tts_cancel, force_stop_recording, recording_buf,
                   stt_engine, tts_engine, wk, obs>>
    /\ SpeakFrame

\* ... emit SpeakingEnd, and StateChange if the exchange succeeded (1262-1275).
FinishEmit(s) ==
    /\ sp[s].pc = "fin_emit"
    /\ obs' = [Observe(<<"SpeakingEnd", "">>) EXCEPT
                  !.lastSC = IF sp[s].swapped THEN sp[s].next ELSE @]
    /\ SpSet(s, [sp[s] EXCEPT !.pc = "ret", !.ends = @ + 1, !.sc = sp[s].swapped])
    /\ UNCHANGED <<sharedVars, wk>>
    /\ SpeakFrame

\* speak returns.
SpeakReturn(s) ==
    /\ sp[s].pc = "ret"
    /\ sp' = [t \in Speakers |-> IF t = s THEN SpIdle
                                 ELSE [sp[t] EXCEPT !.prev = @ \ {s}]]
    /\ UNCHANGED <<sharedVars, wk, obs>>
    /\ SpeakFrame

\* ------------------------------------------------------- playback workers

\* The worker ends with result r: its Sink and its receiver are dropped.
WkDone(s, r) ==
    wk' = [wk EXCEPT ![s].pc = "done", ![s].res = r, ![s].rx = FALSE,
                     ![s].sink = FALSE]

\* open_output_stream and Sink::try_new (1322-1325, 1362-1365) succeed, fail, or
\* the worker panics; play_samples_rodio then appends its samples (1331-1332).
PlayOpen(s) ==
    /\ wk[s].pc \in {"open", "open1"}
    /\ \E r \in {"ok", "err", "panic"} :
        IF r # "ok" THEN WkDone(s, r)
        ELSE IF wk[s].pc = "open1"
        THEN wk' = [wk EXCEPT ![s].pc = "drain", ![s].sink = TRUE]
        ELSE wk' = [wk EXCEPT ![s].pc = "check"]
    /\ UNCHANGED <<sharedVars, sp, obs>>
    /\ SpeakFrame

\* play_chunks_rodio: the cancel check at the head of the receive loop (1375-1379).
PlayCheck(s) ==
    /\ wk[s].pc = "check"
    /\ IF tts_cancel
       THEN WkDone(s, "ok")
       ELSE wk' = [wk EXCEPT ![s].pc = "recv"]
    /\ UNCHANGED <<sharedVars, sp, obs>>
    /\ SpeakFrame

\* rt.block_on(rx.recv()) (1381-1390): a chunk is appended to the Sink; None once
\* the sender is dropped and the channel is empty; waits otherwise.
PlayRecv(s) ==
    /\ wk[s].pc = "recv"
    /\ IF wk[s].chan > 0
       THEN wk' = [wk EXCEPT ![s].chan = @ - 1, ![s].sink = TRUE, ![s].pc = "check"]
       ELSE /\ ~wk[s].tx
            /\ wk' = [wk EXCEPT ![s].pc = "drain"]
    /\ UNCHANGED <<sharedVars, sp, obs>>
    /\ SpeakFrame

\* The 50 ms poll while the Sink plays (1335-1345, 1394-1402): done when the Sink
\* is empty, stopped when tts_cancel is set (a poll that finds neither sleeps).
PlayDrain(s) ==
    /\ wk[s].pc = "drain"
    /\ ~wk[s].sink \/ tts_cancel
    /\ WkDone(s, "ok")
    /\ UNCHANGED <<sharedVars, sp, obs>>
    /\ SpeakFrame

\* The output device has played all the audio queued in the Sink.
SinkPlayed(s) ==
    /\ wk[s].sink
    /\ wk' = [wk EXCEPT ![s].sink = FALSE]
    /\ UNCHANGED <<sharedVars, sp, obs>>
    /\ SpeakFrame

SpeakNext(s) ==
    \/ Speak(s) \/ SpeakCancel(s) \/ SpeakPoll(s) \/ SpeakReset(s)
    \/ SetSpeakingState(s) \/ SetSpeakingEmit(s) \/ SpeakTake(s) \/ SpeakSplit(s)
    \/ OneshotSynth(s) \/ RestoreAndFinish(s)
    \/ StreamCheck(s) \/ StreamSynth(s) \/ StreamSend(s) \/ StreamDrop(s)
    \/ SpeakJoin(s) \/ SpeakEmitError(s)
    \/ FinishMode(s) \/ FinishCas(s) \/ FinishEmit(s) \/ SpeakReturn(s)
    \/ PlayOpen(s) \/ PlayCheck(s) \/ PlayRecv(s) \/ PlayDrain(s) \/ SinkPlayed(s)

\* ------------------------------------------------- the cloud TTS adapter

\* A step inside the adapter touches none of the pipeline's cells.
EdgeFrame ==
    UNCHANGED <<sharedVars, procVars, ctlVars, ctlPre, sp, wk, obs, cancelSeen,
                auxVars>>

\* What synthesize_ws returns once its receive loop has ended (tts.rs:590-603):
\* an error without audio data, else what the MP3 decoder makes of it.
EdgeResults(got) ==
    IF got THEN {"ok", "empty", "err"} ELSE {"err"}

\* EdgeTts::synthesize is awaited by speak call s (pipeline.rs:1099, 1159): it
\* resets its own flag (tts.rs:614-618), and synthesize_ws upgrades the
\* connection and sends the request (464-536), which fails or reaches the
\* receive loop.
EdgeSynthesize(s) ==
    /\ sp[s].pc \in {"one_synth", "str_synth"}
    /\ edge.pc = "idle"
    /\ \E up \in BOOLEAN :
        edge' = [EdgeIdle EXCEPT !.call = s,
                                 !.pc = IF up THEN "loop" ELSE "ret",
                                 !.res = IF up THEN "none" ELSE "err"]
    /\ EdgeFrame

\* Head of the receive loop: the check of self.cancelled (tts.rs:540-544).
EdgeLoop ==
    /\ edge.pc = "loop"
    /\ IF edge.cancelled
       THEN \E r \in EdgeResults(edge.got) :
              edge' = [edge EXCEPT !.pc = "ret", !.res = r]
       ELSE edge' = [edge EXCEPT !.pc = "read"]
    /\ EdgeFrame

\* ws_read_frame returns (tts.rs:546-582): an audio frame, a frame that is
\* skipped, or the end of the turn (turn.end, Close, read error).
EdgeRead ==
    /\ edge.pc = "read"
    /\ \E f \in {"audio", "other", "end"} :
        IF f = "end"
        THEN \E r \in EdgeResults(edge.got) :
               edge' = [edge EXCEPT !.pc = "ret", !.res = r]
        ELSE edge' = [edge EXCEPT !.pc = "loop", !.got = @ \/ f = "audio"]
    /\ EdgeFrame

\* The speak call goes on with what the adapter returned.
EdgeReturned(s) ==
    /\ edge.pc = "ret"
    /\ edge.call = s
    /\ CASE edge.res = "ok" -> sp'[s].pc \in {"restore_fin", "wait", "str_send"}
         [] edge.res = "err" -> sp'[s].pc \in {"emit_err", "str_check", "str_drop"}
                                /\ sp'[s].synFail # "none"
         [] OTHER -> sp'[s].pc \in {"fin_mode", "str_check", "str_drop"}
                     /\ sp'[s].synFail = sp[s].synFail

\* speak_oneshot and the streaming loop of speak, with EdgeTts as the engine.
EdgeOneshotSynth(s) ==
    OneshotSynth(s) /\ EdgeReturned(s)

EdgeStreamSynth(s) ==
    StreamSynth(s) /\ EdgeReturned(s)

\* ------------------------------------------------------------ RingBuffer

\* One iteration of push_slice over a full buffer that keeps the oldest sample
\* and drops the new one.
push_sample_keep_oldest(rb, sample) ==
    IF rb.count >= rb.capacity
    THEN rb
    ELSE [rb EXCEPT !.data[rb.write_pos] = sample,
                    !.write_pos = (@ + 1) % rb.capacity,
                    !.count = @ + 1]

\* One iteration of the loop of push_slice (176-185).
push_sample(rb, sample) ==
    LET r1 == IF rb.count >= rb.capacity
              THEN [rb EXCEPT !.read_pos = (@ + 1) % rb.capacity, !.count = @ - 1]
              ELSE rb
    IN  [r1 EXCEPT !.data[r1.write_pos] = sample,
                   !.write_pos = (@ + 1) % r1.capacity,
                   !.count = @ + 1]

\* push_slice (174-188): the buffer after the call and the value returned.
RECURSIVE push_loop(_, _, _)
push_loop(rb, samples, written) ==
    IF samples = <<>>
    THEN <<rb, written>>
    ELSE push_loop(push_sample(rb, Head(samples)), Tail(samples), written + 1)

push_slice(rb, samples) ==
    push_loop(rb, samples, 0)

\* One iteration of pop_slice that copies the sample and leaves the read cursor.
pop_item_stale(rb) ==
    <<[rb EXCEPT !.count = @ - 1], rb.data[rb.read_pos]>>

\* One iteration of the loop of pop_slice (192-196): the buffer and the item.
pop_item(rb) ==
    <<[rb EXCEPT !.read_pos = (@ + 1) % rb.capacity, !.count = @ - 1],
      rb.data[rb.read_pos]>>

\* pop_slice (190-198) into buf: the buffer, buf and the value returned.
RECURSIVE pop_loop(_, _, _, _)
pop_loop(rb, buf, i, to_read) ==
    IF i > to_read
    THEN <<rb, buf, to_read>>
    ELSE LET p == pop_item(rb)
         IN  pop_loop(p[1], [buf EXCEPT ![i] = p[2]], i + 1, to_read)

pop_slice(rb, buf) ==
    pop_loop(rb, buf, 1, Min(Len(buf), rb.count))

\* drain_all (205-213): the buffer and the vector returned.
drain_all(rb) ==
    IF rb.count = 0
    THEN <<rb, <<>>>>
    ELSE LET r == pop_slice(rb, [i \in 1..rb.count |-> 0])
         IN  <<r[1], r[2]>>

\* The last n elements of q.
LastN(q, n) ==
    SubSeq(q, Len(q) - n + 1, Len(q))

RingFrame ==
    UNCHANGED <<pipeVars, acc, api, utilVars>>

\* create_ring_buffer(capacity) (216-224).
RingCreate ==
    /\ ring = RingNone
    /\ \E c \in 1..MaxCap : ring' = RingNew(c)
    /\ ringObs' = RingObsNone
    /\ RingFrame

\* The producer pushes a slice of k samples.
RingPush ==
    /\ ring.capacity > 0
    /\ \E k \in 0..(MaxPushed - ringObs.n) :
        LET samples == [i \in 1..k |-> ringObs.n + i]
            r == push_slice(ring, samples)
            all == ringObs.fifo \o samples
        IN  /\ ring' = r[1]
            /\ ringObs' = [ringObs EXCEPT
                   !.n = @ + k,
                   !.fifo = LastN(all, Min(Len(all), ring.capacity)),
                   !.op = "push_slice", !.arg = k, !.ret = r[2], !.out = <<>>,
                   !.pre = ringObs.fifo, !.preN = ringObs.n,
                   !.clean = ~ringObs.popped]
    /\ RingFrame

\* The consumer pops into a buffer of len samples.
RingPop ==
    /\ ring.capacity > 0
    /\ \E len \in 0..MaxPop :
        LET r == pop_slice(ring, [i \in 1..len |-> 0])
            m == Min(len, Len(ringObs.fifo))
        IN  /\ ring' = r[1]
            /\ ringObs' = [ringObs EXCEPT
                   !.popped = TRUE,
                   !.fifo = SubSeq(ringObs.fifo, m + 1, Len(ringObs.fifo)),
                   !.op = "pop_slice", !.arg = len, !.ret = r[3], !.out = r[2],
                   !.pre = ringObs.fifo, !.preN = ringObs.n,
                   !.clean = ~ringObs.popped]
    /\ RingFrame

\* The consumer drains the buffer.
RingDrain ==
    /\ ring.capacity > 0
    /\ LET r == drain_all(ring)
       IN  /\ ring' = r[1]
           /\ ringObs' = [ringObs EXCEPT
                  !.n = 0, !.popped = FALSE, !.fifo = <<>>,
                  !.op = "drain_all", !.arg = 0, !.ret = Len(r[2]), !.out = r[2],
                  !.pre = ringObs.fifo, !.preN = ringObs.n,
                  !.clean = ~ringObs.popped]
    /\ RingFrame

\* --------------------------------------------------- ToolCallAccumulator

\* accumulate, one delta, with the arguments fragment put in front of the text.
accumulate_delta_prepend(calls, delta) ==
    LET idx == IF delta.index = <<>> THEN 0 ELSE delta.index[1]
        grown == calls \o [i \in 1..(idx + 1 - Len(calls)) |-> EmptySlot]
        entry == grown[idx + 1]
        e1 == IF delta.id # <<>> /\ delta.id[1] # <<>>
              THEN [entry EXCEPT !.id = delta.id[1]] ELSE entry
        e2 == IF delta.name # <<>> /\ delta.name[1] # <<>>
              THEN [e1 EXCEPT !.name = @ \o delta.name[1]] ELSE e1
        e3 == IF delta.args # <<>> /\ delta.args[1] # <<>>
              THEN [e2 EXCEPT !.arguments = delta.args[1] \o @] ELSE e2
    IN  [grown EXCEPT ![idx + 1] = e3]

\* The body of the loop of accumulate (170-209) for one delta.
accumulate_delta(calls, delta) ==
    LET idx == IF delta.index = <<>> THEN 0 ELSE delta.index[1]
        grown == calls \o [i \in 1..(idx + 1 - Len(calls)) |-> EmptySlot]
        entry == grown[idx + 1]
        e1 == IF delta.id # <<>> /\ delta.id[1] # <<>>
              THEN [entry EXCEPT !.id = delta.id[1]] ELSE entry
        e2 == IF delta.name # <<>> /\ delta.name[1] # <<>>
              THEN [e1 EXCEPT !.name = @ \o delta.name[1]] ELSE e1
        e3 == IF delta.args # <<>> /\ delta.args[1] # <<>>
              THEN [e2 EXCEPT !.arguments = @ \o delta.args[1]] ELSE e2
    IN  [grown EXCEPT ![idx + 1] = e3]

\* accumulate (167-213) over the tool_calls array of one SSE chunk.
RECURSIVE accumulate(_, _)
accumulate(calls, delta_tool_calls) ==
    IF delta_tool_calls = <<>>
    THEN calls
    ELSE accumulate(accumulate_delta(calls, Head(delta_tool_calls)),
                    Tail(delta_tool_calls))

\* serde_json::from_str on the arguments text (231-243), over the texts the
\* fragments can form: the one well-formed text parses to its object, the empty
\* text and every other text yield the empty object.
ParseArguments(text) ==
    IF text = <<"{k:", "1}">> THEN "{k:1}" ELSE "{}"

Named(tc) == tc.name # <<>>

\* take_completed that keeps the slots without a name.
take_completed_unfiltered(calls, uuid) ==
    [i \in 1..Len(calls) |->
        [id |-> IF calls[i].id = <<>> THEN <<"call_", uuid[i]>> ELSE calls[i].id,
         name |-> calls[i].name,
         arguments |-> ParseArguments(calls[i].arguments)]]

\* take_completed (223-259): the completed calls; uuid[i] is the identifier
\* generated for the i-th of them if it has no id.
take_completed(calls, uuid) ==
    LET kept == SelectSeq(calls, Named)
    IN  [i \in 1..Len(kept) |->
            [id |-> IF kept[i].id = <<>> THEN <<"call_", uuid[i]>> ELSE kept[i].id,
             name |-> kept[i].name,
             arguments |-> ParseArguments(kept[i].arguments)]]

\* to_openai_format (266-282).
to_openai_format(calls) ==
    LET kept == SelectSeq(calls, Named)
    IN  [i \in 1..Len(kept) |->
            [id |-> kept[i].id, type |-> "function",
             function |-> [name |-> kept[i].name, arguments |-> kept[i].arguments]]]

\* The ToolCallRequest stream_request builds when the stream has ended
\* (api.rs:571-589).
ToolCallRequest(calls, finish_reason, uuid) ==
    IF calls # <<>> /\ finish_reason \in {"tool_calls", "stop"}
    THEN [some |-> TRUE, calls |-> take_completed(calls, uuid),
          raw |-> to_openai_format(calls)]
    ELSE [some |-> FALSE, calls |-> <<>>, raw |-> <<>>]

AccFrame ==
    UNCHANGED <<pipeVars, ringVars, api, utilVars>>

\* stream_request: one SSE chunk with a tool_calls array (api.rs:541-550).
AccAccumulate ==
    /\ ~acc.ended
    /\ Len(acc.log) < MaxDeltas
    /\ \E d \in Deltas :
        acc' = [acc EXCEPT !.calls = accumulate(@, <<d>>), !.log = Append(@, d)]
    /\ AccFrame

\* stream_request: the stream ends (api.rs:571-594).
AccFinish ==
    /\ ~acc.ended
    /\ \E fr \in {"tool_calls", "stop", "length"} :
       \E uuid \in [1..(MaxIndex + 1) -> Uuids] :
        LET req == ToolCallRequest(acc.calls, fr, uuid)
        IN  acc' = [acc EXCEPT !.ended = TRUE, !.pre = acc.calls, !.req = req,
                               !.calls = IF req.some THEN <<>> ELSE @]
    /\ AccFrame

\* ------------------------------------------------------------ ApiProvider

\* A message of the history: its role, the tool_call_id of a role:tool message
\* and the tool_calls array of an assistant message (absent: <<>>).  The
\* content of a message is not modelled.
Message(role, tool_call_id, tool_calls) ==
    [role |-> role, tool_call_id |-> tool_call_id, tool_calls |-> tool_calls]

SystemMessage == Message("system", <<>>, <<>>)
UserMessage == Message("user", <<>>, <<>>)

\* limit_message_history that keeps the last messages whatever their role.
limit_message_history_no_skip(messages) ==
    LET RECURSIVE system_end(_)
        system_end(m) ==
            IF m # <<>> /\ Head(m).role = "system"
            THEN 1 + system_end(Tail(m))
            ELSE 0
        non_system_count == Len(messages) - system_end(messages)
        keep == Min(MAX_HISTORY_MESSAGES, non_system_count)
        start_idx == Len(messages) - keep
    IN  IF Len(messages) <= MAX_HISTORY_MESSAGES
        THEN messages
        ELSE SubSeq(messages, 1, system_end(messages))
               \o SubSeq(messages, start_idx + 1, Len(messages))

\* limit_message_history (601-640): system_end counts the system messages at the
\* start of the history (607-611), skip_tool moves the window start, counted
\* from 0, past the leading role:tool messages (618-625).
limit_message_history(messages) ==
    LET RECURSIVE system_end(_)
        system_end(m) ==
            IF m # <<>> /\ Head(m).role = "system"
            THEN 1 + system_end(Tail(m))
            ELSE 0
        RECURSIVE skip_tool(_)
        skip_tool(start_idx) ==
            IF start_idx < Len(messages) /\ messages[start_idx + 1].role = "tool"
            THEN skip_tool(start_idx + 1)
            ELSE start_idx
        non_system_count == Len(messages) - system_end(messages)
        keep == Min(MAX_HISTORY_MESSAGES, non_system_count)
        start_idx == skip_tool(Len(messages) - keep)
    IN  IF Len(messages) <= MAX_HISTORY_MESSAGES
        THEN messages
        ELSE SubSeq(messages, 1, system_end(messages))
               \o SubSeq(messages, start_idx + 1, Len(messages))

\* Is the task between its spawn and its end?
Live(t) ==
    t.pc \notin {"none", "done", "cancelled"}

\* send_message_internal (321-445) on the provider a: limit the history, reset
\* the abort flag, spawn the task that streams the response and store its
\* handle.  Storing the handle (444) drops the handle stored before without
\* aborting its task, which runs on detached.  A model is configured.
send_message_internal(a) ==
    [a EXCEPT !.messages = limit_message_history(@),
              !.cut = Len(limit_message_history(a.messages)) < Len(a.messages),
              !.pre = a.messages,
              !.abort_flag = FALSE,
              !.handle = TRUE,
              !.earlier = IF a.handle /\ Live(a.task) THEN "live" ELSE @,
              !.late = IF a.handle /\ Live(a.task) THEN 0 ELSE @,
              !.task = [TaskNone EXCEPT
                          !.pc = "request",
                          !.tools_enabled = a.tools # <<>>,
                          !.native_tools = a.tools # <<>> /\ a.native],
              !.stream = TRUE]

\* abort_flag.store(true) and _stream_handle.take() with handle.abort() on the
\* provider a (722, 729-731, 760-763): a task awaiting the response is dropped,
\* a task elsewhere is dropped at its next await.
abort_stream(a) ==
    LET t == a.task
        marked == [t EXCEPT !.mark = IF Live(t) /\ @ = -1 THEN Len(t.ev) ELSE @]
        dropped == a.handle /\ t.pc = "request"
    IN  [a EXCEPT !.abort_flag = TRUE,
                  !.handle = FALSE,
                  !.stream = IF dropped THEN FALSE ELSE @,
                  !.task = IF dropped THEN [marked EXCEPT !.pc = "cancelled"]
                           ELSE IF a.handle /\ Live(t)
                           THEN [marked EXCEPT !.aborted = TRUE]
                           ELSE marked]

\* check_tool_iteration_limit with the comparison `>=`.
check_tool_iteration_limit_at(n) ==
    [n |-> n + 1, ret |-> n + 1 >= MAX_TOOL_ITERATIONS]

\* check_tool_iteration_limit (671-685) on the counter n: the counter after
\* the call and the value returned.
check_tool_iteration_limit(n) ==
    [n |-> n + 1, ret |-> n + 1 > MAX_TOOL_ITERATIONS]

ApiFrame ==
    UNCHANGED <<pipeVars, ringVars, acc, utilVars>>

\* ApiProvider::new (153-194) for a provider type with native tool calling
\* (tool_calling.rs:463-468): the system prompt is configured or not.
ApiCreate ==
    /\ ~api.made
    /\ \E p \in BOOLEAN :
        api' = [ApiNone EXCEPT !.made = TRUE, !.system_prompt = p, !.op = "new"]
    /\ ApiFrame

\* ApiProvider::new for a local provider type, without native tool calling.
ApiCreateLocal ==
    /\ ~api.made
    /\ \E p \in BOOLEAN :
        api' = [ApiNone EXCEPT !.made = TRUE, !.system_prompt = p, !.native = FALSE,
                               !.op = "new"]
    /\ ApiFrame

\* set_tools (200-212) with an empty or a non-empty list.
ApiSetTools ==
    /\ api.made
    /\ \E tools \in {<<>>, <<"t">>} :
        api' = [api EXCEPT !.tools = tools,
                           !.op = "set_tools", !.ret = "none", !.out = "none"]
    /\ ApiFrame

\* Provider::start (688-719); on a running provider it returns Err and
\* changes nothing.  The upstream makes its three calls for a tool-call
\* request (add, check, inject) under one hold of the provider, so that start,
\* stop and send_input fall before or after them.
ApiStart ==
    /\ api.made
    /\ api.stage \in {"none", "got"}
    /\ api.pushed + 1 <= MaxMessages
    /\ IF api.running
       THEN api' = [api EXCEPT !.op = "start", !.ret = "Err", !.out = "none"]
       ELSE api' = [api EXCEPT
                !.running = TRUE,
                !.messages = IF api.system_prompt THEN <<SystemMessage>> ELSE <<>>,
                !.current_tool_iteration = 0,
                !.pushed = IF api.system_prompt THEN @ + 1 ELSE @,
                !.checks = 0, !.follow = 0, !.cut = FALSE,
                !.op = "start", !.ret = "Ok", !.out = "Ready"]
    /\ ApiFrame

\* Provider::stop that leaves the tool list as it is.
ApiStop_keeps_tools ==
    /\ api.made
    /\ api.stage \in {"none", "got"}
    /\ api' = [abort_stream(api) EXCEPT
                !.running = FALSE, !.messages = <<>>,
                !.current_tool_iteration = 0,
                !.checks = 0, !.follow = 0, !.cut = FALSE, !.pre = <<>>,
                !.op = "stop", !.ret = "none", !.out = "none"]
    /\ ApiFrame

\* Provider::stop (721-732).
ApiStop ==
    /\ api.made
    /\ api.stage \in {"none", "got"}
    /\ api' = [abort_stream(api) EXCEPT
                !.running = FALSE, !.messages = <<>>, !.tools = <<>>,
                !.current_tool_iteration = 0,
                !.checks = 0, !.follow = 0, !.cut = FALSE, !.pre = <<>>,
                !.op = "stop", !.ret = "none", !.out = "none"]
    /\ ApiFrame

\* Provider::interrupt (759-764).
ApiInterrupt ==
    /\ api.made
    /\ api' = [abort_stream(api) EXCEPT
                !.op = "interrupt", !.ret = "none", !.out = "none"]
    /\ ApiFrame

\* send_input -> send_message (290-318, 734-736) with an empty or a non-empty
\* text, while the upstream holds no tool-call request.
ApiSendInput ==
    /\ api.made
    /\ api.stage = "none"
    /\ \E empty \in BOOLEAN :
        IF ~api.running
        THEN api' = [api EXCEPT !.op = "send_input", !.ret = "none", !.out = "Error"]
        ELSE IF empty
        THEN api' = [send_message_internal(api) EXCEPT
                        !.op = "send_empty", !.ret = "none", !.out = "none"]
        ELSE LET reminder == api.system_prompt /\ Len(api.messages) > 1
                 pushes == IF reminder THEN <<SystemMessage, UserMessage>>
                           ELSE <<UserMessage>>
                 a == [api EXCEPT !.messages = @ \o pushes,
                                  !.current_tool_iteration = 0,
                                  !.pushed = @ + Len(pushes), !.turns = @ + 1,
                                  !.checks = 0, !.follow = 0]
             IN  /\ api.turns < MaxTurns
                 /\ api.pushed + Len(pushes) <= MaxMessages
                 /\ api' = [send_message_internal(a) EXCEPT
                             !.op = "send_input", !.ret = "none", !.out = "none"]
    /\ ApiFrame

\* The identifiers generated for the calls of a provider's response.
StreamUuid ==
    [i \in 1..(MaxIndex + 1) |-> "u1"]

\* The text-parsed call of a local provider's response (404-423,
\* tool_calling.rs:312-350): a generated id and no raw tool calls.
ParsedRequest ==
    [some |-> TRUE,
     calls |-> <<[id |-> <<"call_", "u1">>, name |-> <<"f">>, arguments |-> "{}"]>>,
     raw |-> <<>>]

\* The spawned task as one step: stream_request returns (379-442) with the
\* slots Calls offers, accumulated if the task was spawned with native tools
\* (543), or with a text in which a local provider with tools set finds a tool
\* call or not; ToolCalls is emitted and received by the upstream, or the
\* response is a plain one.
ApiStreamEnd(Calls) ==
    /\ api.stream
    /\ api.task.pc = "request"
    /\ api.stage = "none"
    /\ \E calls \in Calls : \E parsed \in BOOLEAN :
        LET req == IF api.task.native_tools
                   THEN ToolCallRequest(calls, "tool_calls", StreamUuid)
                   ELSE IF api.task.tools_enabled /\ ~api.native /\ parsed
                   THEN ParsedRequest
                   ELSE NoRequest
        IN  api' = [api EXCEPT
                     !.task.pc = "done",
                     !.stream = FALSE, !.req = req,
                     !.stage = IF req.some THEN "got" ELSE "none",
                     !.op = "stream_end", !.ret = "none",
                     !.out = IF req.some THEN "ToolCalls" ELSE "Response"]
    /\ ApiFrame

\* The upstream: add_assistant_tool_call_message(response_text, raw_tool_calls)
\* (647-668).
ApiAddAssistant ==
    /\ api.stage = "got"
    /\ api.pushed + 1 <= MaxMessages
    /\ api' = [api EXCEPT
                !.messages = Append(@, Message("assistant", <<>>, api.req.raw)),
                !.pushed = @ + 1, !.stage = "added",
                !.op = "add_assistant", !.ret = "none", !.out = "none"]
    /\ ApiFrame

\* The upstream: check_tool_iteration_limit (671-685); on true it stops.
ApiCheck ==
    /\ api.stage = "added"
    /\ api.checks < MaxChecks
    /\ LET c == check_tool_iteration_limit(api.current_tool_iteration)
       IN  api' = [api EXCEPT
                    !.current_tool_iteration = c.n,
                    !.checks = @ + 1,
                    !.stage = IF c.ret THEN "none" ELSE "checked",
                    !.req = IF c.ret THEN NoRequest ELSE @,
                    !.op = "check", !.ret = IF c.ret THEN "true" ELSE "false",
                    !.out = IF c.ret THEN "MaxIterations" ELSE "none"]
    /\ ApiFrame

\* inject_tool_results that resets the tool-iteration counter.
ApiInject_resets ==
    /\ api.stage = "checked"
    /\ api.pushed + Len(api.req.calls) <= MaxMessages
    /\ IF ~api.running
       THEN api' = [api EXCEPT !.stage = "none", !.req = NoRequest,
                               !.op = "inject", !.ret = "none", !.out = "Error"]
       ELSE LET results == IF api.native
                           THEN [i \in 1..Len(api.req.calls) |->
                                   Message("tool", api.req.calls[i].id, <<>>)]
                           ELSE <<UserMessage>>
                a == [api EXCEPT !.messages = @ \o results,
                                 !.pushed = @ + Len(results),
                                 !.current_tool_iteration = 0,
                                 !.follow = @ + 1,
                                 !.stage = "none", !.req = NoRequest]
            IN  api' = [send_message_internal(a) EXCEPT
                         !.op = "inject", !.ret = "none", !.out = "none"]
    /\ ApiFrame

\* The upstream: inject_tool_results (237-279) with one result per completed
\* call.
ApiInject ==
    /\ api.stage = "checked"
    /\ api.pushed + Len(api.req.calls) <= MaxMessages
    /\ IF ~api.running
       THEN api' = [api EXCEPT !.stage = "none", !.req = NoRequest,
                               !.op = "inject", !.ret = "none", !.out = "Error"]
       ELSE LET results == IF api.native
                           THEN [i \in 1..Len(api.req.calls) |->
                                   Message("tool", api.req.calls[i].id, <<>>)]
                           ELSE <<UserMessage>>
                a == [api EXCEPT !.messages = @ \o results,
                                 !.pushed = @ + Len(results),
                                 !.follow = @ + 1,
                                 !.stage = "none", !.req = NoRequest]
            IN  api' = [send_message_internal(a) EXCEPT
                         !.op = "inject", !.ret = "none", !.out = "none"]
    /\ ApiFrame

\* ------------------------------------------------------- the stream task

\* The task t after sending the event e, and after its end.
TaskEmit(t, e) ==
    [t EXCEPT !.ev = Append(@, e)]

TaskEnd(a, t) ==
    [a EXCEPT !.task = [t EXCEPT !.pc = "done"], !.stream = FALSE]

\* client.post(..).send().await and the status check (469-482).
TaskRequest ==
    /\ api.task.pc = "request"
    /\ \E success \in BOOLEAN :
        api' = [api EXCEPT !.task.pc = IF success THEN "next" ELSE "err_abort"]
    /\ ApiFrame

\* stream.next().await (493): a chunk, a read error or the end of the body.  An
\* aborted task is dropped here unless the item is ready when it is polled.
TaskNext ==
    /\ api.task.pc = "next"
    /\ \/ /\ api.task.aborted
          /\ api' = [api EXCEPT !.task.pc = "cancelled", !.stream = FALSE]
       \/ \E item \in {"chunk", "error", "end"} :
            api' = [api EXCEPT !.task.item = IF item = "end" THEN "none" ELSE item,
                               !.task.pc = IF item = "end" THEN "result" ELSE "check"]
    /\ ApiFrame

\* The abort check, then the `?` on the chunk (495-499).
TaskCheck ==
    /\ api.task.pc = "check"
    /\ api' = [api EXCEPT !.task.item = "none",
                           !.task.pc =
                 IF api.abort_flag \/ api.task.item = "error" THEN "err_abort"
                 ELSE "line"]
    /\ ApiFrame

\* One `data:` line of the chunk (521-567): a content delta, empty or not, a
\* tool-call delta, a finish reason; or the chunk has no further line.
TaskLine ==
    /\ api.task.pc = "line"
    /\ \/ \E content \in {<<>>, <<"x">>} :
            /\ Len(api.task.ev) < MaxTokens
            /\ api' = [api EXCEPT !.task =
                        TaskEmit([@ EXCEPT !.full = @ \o content],
                                 <<"StreamToken", content>>)]
       \/ /\ api.task.native_tools
          /\ api' = [api EXCEPT !.task.calls = TRUE]
       \/ \E reason \in {"tool_calls", "stop", "length"} :
            api' = [api EXCEPT !.task.finish = reason]
       \/ api' = [api EXCEPT !.task.pc = "next"]
    /\ ApiFrame

\* stream_request returns Ok (571-594) and the task matches on the result
\* (391-432): ToolCalls for native tool calls, ToolCalls with the request built
\* at 413-417 for a call parsed from the text of a local provider, StreamEnd for
\* a non-empty plain response.
TaskResult ==
    /\ api.task.pc = "result"
    /\ \E parsed \in BOOLEAN :
        LET t == [api.task EXCEPT !.ok = TRUE]
        IN  IF t.calls /\ t.finish \in {"tool_calls", "stop"}
            THEN api' = TaskEnd(api, TaskEmit(t, <<"ToolCalls">>))
            ELSE IF t.tools_enabled /\ ~api.native /\ t.full # <<>> /\ parsed
            THEN api' = TaskEnd(api, TaskEmit(t,
                          <<"ToolCalls", [calls |-> ParsedRequest.calls,
                                          response_text |-> t.full,
                                          raw_tool_calls |-> <<>>]>>))
            ELSE IF t.full # <<>>
            THEN api' = [api EXCEPT !.task =
                          [TaskEmit(t, <<"StreamEnd", t.full>>) EXCEPT
                             !.pc = "response"]]
            ELSE api' = TaskEnd(api, t)
    /\ ApiFrame

\* Response after StreamEnd (430-431).
TaskResponse ==
    /\ api.task.pc = "response"
    /\ api' = TaskEnd(api, TaskEmit(api.task, <<"Response", api.task.full>>))
    /\ ApiFrame

\* The error branch: abort_flag.load (435-436) ...
TaskErrAbort ==
    /\ api.task.pc = "err_abort"
    /\ IF api.abort_flag
       THEN api' = TaskEnd(api, TaskEmit(api.task, <<"Output", "[Cancelled]">>))
       ELSE api' = [api EXCEPT !.task.pc = "err_running"]
    /\ ApiFrame

\* ... and running.load (437-439).
TaskErrRunning ==
    /\ api.task.pc = "err_running"
    /\ IF api.running
       THEN api' = TaskEnd(api, TaskEmit(api.task, <<"Error">>))
       ELSE api' = TaskEnd(api, api.task)
    /\ ApiFrame

\* A chunk of the detached task's stream (493-499, 521-541): stream.next()
\* yields a chunk or the end of the body; on a chunk the task loads the abort
\* flag and returns Err if it is set, and sends a StreamToken otherwise.
DetachedChunk ==
    /\ api.earlier = "live"
    /\ \E item \in {"chunk", "end"} :
        IF item = "end" \/ api.abort_flag
        THEN api' = [api EXCEPT !.earlier = "ended"]
        ELSE /\ api.late < MaxLate
             /\ api' = [api EXCEPT !.late = @ + 1]
    /\ ApiFrame

\* ------------------------------------------------- the WebSocket helpers

WsOnly ==
    UNCHANGED <<pipeVars, ringVars, acc, api, vad, phr, dl, sse>>

ByteAt(b, i) ==
    b.pat[(i % Len(b.pat)) + 1]

\* The n bytes of s as a byte string, and a short byte string as a sequence.
AsBytes(s) ==
    [len |-> Len(s), pat |-> IF s = <<>> THEN <<0>> ELSE s]

AsSeq(b) ==
    [i \in 1..b.len |-> ByteAt(b, i - 1)]

Lcm(p, q) ==
    CHOOSE n \in 1..(p * q) :
        /\ n % p = 0 /\ n % q = 0
        /\ \A m \in 1..(n - 1) : ~(m % p = 0 /\ m % q = 0)

\* a ^ b, a | b and a & b on u8, from the truth table of one bit.
RECURSIVE Bitwise(_, _, _, _)
Bitwise(t, a, b, n) ==
    IF n = 0 THEN 0
    ELSE t[2 * (a % 2) + (b % 2) + 1] + 2 * Bitwise(t, a \div 2, b \div 2, n - 1)

BitXor(a, b) == Bitwise(<<0, 1, 1, 0>>, a, b, 8)
BitOr(a, b) == Bitwise(<<0, 1, 1, 1>>, a, b, 8)
BitAnd(a, b) == Bitwise(<<0, 0, 0, 1>>, a, b, 8)

\* v.to_be_bytes() on n bytes and from_be_bytes.  Lengths stay below 2^31.
RECURSIVE Shr8(_, _)
Shr8(v, m) ==
    IF m = 0 THEN v ELSE Shr8(v \div 256, m - 1)

to_be_bytes(v, n) ==
    [k \in 1..n |-> Shr8(v, n - k) % 256]

from_be_bytes(s) ==
    LET RECURSIVE value(_)
        value(k) == IF k = 0 THEN 0 ELSE 256 * value(k - 1) + s[k]
    IN  value(Len(s))

\* The mutant: the key is applied one byte late.
unmask_shifted(payload, key) ==
    [len |-> payload.len,
     pat |-> [j \in 1..Lcm(Len(payload.pat), 4) |->
                BitXor(ByteAt(payload, j - 1), key[(j % 4) + 1])]]

\* b ^ key[i % 4] for every byte of the payload (tts.rs:714-717, 778-783).
unmask(payload, key) ==
    [len |-> payload.len,
     pat |-> [j \in 1..Lcm(Len(payload.pat), 4) |->
                BitXor(ByteAt(payload, j - 1), key[((j - 1) % 4) + 1])]]

\* ws_send_frame (679-724): what it writes to the stream.
ws_send_frame(opcode, payload) ==
    LET len == payload.len
        mask_key == <<55, 250, 33, 61>>
        length ==
            IF len < 126 THEN <<BitOr(128, len % 256)>>
            ELSE IF len <= 65535
                 THEN <<BitOr(128, 126)>> \o to_be_bytes(len % 65536, 2)
                 ELSE <<BitOr(128, 127)>> \o to_be_bytes(len, 8)
    IN  [head |-> <<BitOr(128, opcode)>> \o length \o mask_key,
         body |-> unmask(payload, mask_key)]

\* String::from_utf8_lossy, as code points: an ASCII byte is its own character
\* and a byte that can begin no UTF-8 sequence is U+FFFD.  The bytes of the
\* model above 0x7f are of that kind.
from_utf8_lossy(payload) ==
    [len |-> payload.len,
     pat |-> [j \in 1..Len(payload.pat) |->
                IF payload.pat[j] < 128 THEN payload.pat[j] ELSE 65533]]

WsErr ==
    [res |-> "Err", kind |-> "none", payload |-> NoBytes]

WsOk(kind, payload) ==
    [res |-> "Ok", kind |-> kind, payload |-> payload]

\* ws_read_frame (727-796) on a stream that holds w.  read_exact fails when
\* the stream ends before the bytes asked for.
ws_read_frame(w) ==
    LET hdr == w.head
        opcode == BitAnd(hdr[1], 15)
        masked == BitAnd(hdr[2], 128) # 0
        tag == BitAnd(hdr[2], 127)
        ext == IF tag = 126 THEN 2 ELSE IF tag = 127 THEN 8 ELSE 0
        payload_len == IF ext = 0 THEN tag
                       ELSE from_be_bytes(SubSeq(hdr, 3, 2 + ext))
        keyed == 2 + ext + (IF masked THEN 4 ELSE 0)
        len == Min(payload_len, WsPayloadCap)
        read == [len |-> len, pat |-> w.body.pat]
        payload == IF masked THEN unmask(read, SubSeq(hdr, keyed - 3, keyed))
                   ELSE read
    IN  IF Len(hdr) < 2 THEN WsErr
        ELSE IF Len(hdr) < keyed \/ w.body.len < len THEN WsErr
        ELSE CASE opcode = 1 -> WsOk("Text", from_utf8_lossy(payload))
               [] opcode = 2 -> WsOk("Binary", payload)
               [] opcode = 8 -> WsOk("Close", NoBytes)
               [] opcode = 9 -> WsOk("Ping", payload)
               [] opcode = 10 -> WsOk("Ping", NoBytes)
               [] OTHER -> WsOk("Text", NoBytes)

\* The lengths of the payloads sent: the ends of the three length forms, and
\* one past the cap of the reader.
WsLens ==
    {0, 1, 125, 126, 127, 65535, 65536, WsPayloadCap, WsPayloadCap + 1}

WsPatterns ==
    UNION {[1..n -> {55, 65, 255}] : n \in 1..MaxPeriod}

\* The client sends its first frame: a text frame (ws_send_text, 662-667: the
\* bytes of a &str) or a binary frame.
WsSend ==
    /\ ws.wire = <<>>
    /\ ws.opcode = 0
    /\ \E opcode \in {1, 2}, len \in WsLens, pat \in WsPatterns :
        /\ opcode = 1 => \A j \in 1..Len(pat) : pat[j] < 128
        /\ LET payload == [len |-> len, pat |-> pat]
           IN  ws' = [ws EXCEPT !.wire = <<ws_send_frame(opcode, payload)>>,
                                !.opcode = opcode, !.sent = payload,
                                !.frame = <<>>]
    /\ WsOnly

\* What was written is read from the other end of the stream.
WsLoopback ==
    /\ ws.wire # <<>>
    /\ ws' = [ws EXCEPT !.frame = <<ws_read_frame(ws.wire[1])>>, !.wire = <<>>]
    /\ WsOnly

\* A frame as the server writes it: not masked, shorter than 126 bytes.
ServerFrame(opcode, bytes) ==
    [head |-> <<128 + opcode, Len(bytes)>>, body |-> AsBytes(bytes)]

\* "Path:audio" and "Path:turn.end".
PathAudio == <<80, 97, 116, 104, 58, 97, 117, 100, 105, 111>>
PathTurnEnd == <<80, 97, 116, 104, 58, 116, 117, 114, 110, 46, 101, 110, 100>>

ServerFrames ==
    {ServerFrame(1, PathTurnEnd), ServerFrame(1, <<65>>),
     ServerFrame(2, <<0, 10>> \o PathAudio \o <<7>>), ServerFrame(2, <<0, 1, 65, 7>>),
     ServerFrame(2, <<7>>),
     ServerFrame(8, <<>>),
     ServerFrame(9, <<1, 2>>), ServerFrame(9, <<>>),
     ServerFrame(10, <<9>>), ServerFrame(10, <<>>),
     ServerFrame(3, <<65>>),
     ws_send_frame(9, AsBytes(<<1, 2, 3, 4, 5>>))}

WsServer ==
    /\ ws.pc = "loop"
    /\ ws.wire = <<>>
    /\ ws.n < MaxFrames
    /\ \E f \in ServerFrames :
        ws' = [ws EXCEPT !.wire = <<f>>, !.n = @ + 1]
    /\ WsOnly

\* s contains the needle (str::contains, windows(..).any(..)).
Contains(s, needle) ==
    \E k \in 0..(Len(s) - Len(needle)) :
        \A j \in 1..Len(needle) : s[k + j] = needle[j]

\* One turn of the receive loop of synthesize_ws (552-587) with a frame to
\* read; stop() is not called (EdgeLoop has the cancellation check).
WsRecv ==
    /\ ws.pc = "loop"
    /\ ws.wire # <<>>
    /\ LET frame == ws_read_frame(ws.wire[1])
           data == AsSeq(frame.payload)
           header_len == from_be_bytes(SubSeq(data, 1, 2))
           audio_start == 2 + header_len
           next == [ws EXCEPT !.wire = <<>>, !.frame = <<frame>>]
       IN  ws' =
             CASE frame.res = "Err" -> [next EXCEPT !.pc = "ended"]
               [] frame.kind = "Text" ->
                    IF Contains(data, PathTurnEnd)
                    THEN [next EXCEPT !.pc = "ended"] ELSE next
               [] frame.kind = "Binary" ->
                    IF Len(data) < 2 THEN next
                    ELSE IF header_len + 2 > Len(data) THEN next
                    ELSE IF ~Contains(SubSeq(data, 3, 2 + header_len), PathAudio)
                         THEN next
                    ELSE IF audio_start < Len(data)
                         THEN [next EXCEPT !.mp3_data =
                                 @ \o SubSeq(data, audio_start + 1, Len(data))]
                         ELSE next
               [] frame.kind = "Close" -> [next EXCEPT !.pc = "ended"]
               [] frame.kind = "Ping" ->
                    [next EXCEPT !.written =
                                   Append(@, ws_send_frame(10, frame.payload))]
    /\ WsOnly

\* ----------------------------------------------------------- VadProcessor

VadOnly ==
    UNCHANGED <<pipeVars, ringVars, acc, api, ws, phr, dl, sse>>

\* a > b on f32: false when either is NaN.
Gt(a, b) == a # NaN /\ b # NaN /\ a > b
Le(a, b) == a # NaN /\ b # NaN /\ a <= b

\* avg_energy * (1.0 - alpha) + energy * alpha, as zero, positive or NaN.
Average(avg, energy) ==
    IF avg = NaN \/ energy = NaN THEN NaN
    ELSE IF avg = 0 /\ energy = 0 THEN 0 ELSE 1

\* The mutant: every silent frame takes a new timestamp.
update_state_restamps(v, energy) ==
    LET speech == Gt(energy, v.threshold)
    IN  [v EXCEPT !.frame_count = @ + 1,
                  !.avg_energy = Average(@, energy),
                  !.is_speech = speech,
                  !.silence_start = IF speech THEN <<>> ELSE <<v.now>>]

\* VadProcessor::update_state (94-112).
update_state(v, energy) ==
    LET speech == Gt(energy, v.threshold)
    IN  [v EXCEPT !.frame_count = @ + 1,
                  !.avg_energy = Average(@, energy),
                  !.is_speech = speech,
                  !.silence_start = IF speech THEN <<>>
                                    ELSE IF @ = <<>> THEN <<v.now>> ELSE @]

\* silence_duration (118-120): start.elapsed().
silence_duration(v) ==
    IF v.silence_start = <<>> THEN <<>> ELSE <<v.now - v.silence_start[1]>>

\* silence_exceeded (125-129).
silence_exceeded(v, timeout) ==
    IF silence_duration(v) = <<>> THEN FALSE
    ELSE silence_duration(v)[1] >= timeout

Levels == (0..MaxEnergy) \cup {NaN}

\* VadProcessor::new (67-75).
VadNew ==
    /\ ~vad.made
    /\ \E threshold \in Levels :
        vad' = [VadNone EXCEPT !.made = TRUE, !.threshold = threshold,
                               !.now = vad.now, !.op = "new"]
    /\ VadOnly

\* process_frame and process_frame_i16 (80-91) on a frame of some energy.
VadProcessFrame ==
    /\ vad.made
    /\ vad.frame_count < MaxCount
    /\ \E energy \in Levels :
        vad' = [update_state(vad, energy) EXCEPT !.op = "frame", !.energy = energy]
    /\ VadOnly

\* set_threshold (142-144).
VadSetThreshold ==
    /\ vad.made
    /\ \E threshold \in Levels :
        vad' = [vad EXCEPT !.threshold = threshold, !.op = "set_threshold"]
    /\ VadOnly

\* reset (152-157).
VadReset ==
    /\ vad.made
    /\ vad' = [vad EXCEPT !.silence_start = <<>>, !.is_speech = FALSE,
                          !.avg_energy = 0, !.frame_count = 0, !.op = "reset"]
    /\ VadOnly

\* Time passes on the monotonic clock.
VadTick ==
    /\ vad.now < MaxClock
    /\ vad' = [vad EXCEPT !.now = @ + 1, !.op = "tick"]
    /\ VadOnly

\* ----------------------------------------------------- split_into_phrases

PhrOnly ==
    UNCHANGED <<pipeVars, ringVars, acc, api, ws, vad, dl, sse>>

\* char::is_whitespace, on the characters of the model.
is_whitespace(c) ==
    c \in {9, 10, 11, 12, 13, 32, 133, 160}

\* str::trim.
trim(s) ==
    LET inner == {i \in 1..Len(s) : ~is_whitespace(s[i])}
    IN  IF inner = {} THEN <<>>
        ELSE SubSeq(s, CHOOSE i \in inner : \A j \in inner : i <= j,
                       CHOOSE i \in inner : \A j \in inner : i >= j)

\* str::len: the length of the UTF-8 encoding in bytes (code points below
\* 0x800).
str_len(s) ==
    Len(s) + Cardinality({i \in 1..Len(s) : s[i] >= 128})

\* The loop over the characters (1625-1648), from the character at i with the
\* phrase begun in current: the characters up to the next one that ends a
\* phrase are pushed to current, the phrase is pushed if it is not blank, the
\* whitespace after it is skipped, and the loop goes on with an empty current.
RECURSIVE split_loop(_, _, _, _)
split_loop(chars, i, current, phrases) ==
    LET pushed(j) == current \o SubSeq(chars, i, j)
        is_punct(j) == /\ chars[j] \in {46, 33, 63}
                       /\ (j + 1 > Len(chars) \/ is_whitespace(chars[j + 1]))
        is_para(j) == chars[j] = 10 /\ str_len(trim(pushed(j))) > 10
        ends == {j \in i..Len(chars) : is_punct(j) \/ is_para(j)}
    IN  IF ends = {}
        THEN [current |-> pushed(Len(chars)), phrases |-> phrases]
        ELSE
            LET e == CHOOSE j \in ends : \A k \in ends : j <= k
                s == trim(pushed(e))
                after == {j \in e..Len(chars) :
                            \A k \in (e + 1)..j : is_whitespace(chars[k])}
                last == CHOOSE j \in after : \A k \in after : j >= k
            IN  split_loop(chars, last + 1, <<>>,
                           IF s # <<>> THEN Append(phrases, s) ELSE phrases)

\* The forward merge of short phrases (1667-1679), from the phrase at k.
RECURSIVE merge_loop(_, _, _, _)
merge_loop(phrases, k, carry, merged) ==
    IF k > Len(phrases) THEN [carry |-> carry, merged |-> merged]
    ELSE
        LET s == phrases[k]
            joined == carry \o <<32>> \o s
        IN  IF carry # <<>>
            THEN IF str_len(joined) >= 20
                 THEN merge_loop(phrases, k + 1, <<>>, Append(merged, joined))
                 ELSE merge_loop(phrases, k + 1, joined, merged)
            ELSE IF str_len(s) < 20
                 THEN merge_loop(phrases, k + 1, s, merged)
                 ELSE merge_loop(phrases, k + 1, <<>>, Append(merged, s))

\* v with " " and s pushed to its last element.
PushToLast(v, s) ==
    [v EXCEPT ![Len(v)] = @ \o <<32>> \o s]

\* split_into_phrases (1605-1692).
split_into_phrases(text) ==
    LET trimmed == trim(text)
        scan == split_loop(trimmed, 1, <<>>, <<>>)
        remainder == trim(scan.current)
        phrases ==
            IF remainder = <<>> THEN scan.phrases
            ELSE IF str_len(remainder) < 15 /\ scan.phrases # <<>>
                 THEN PushToLast(scan.phrases, remainder)
                 ELSE Append(scan.phrases, remainder)
        m == merge_loop(phrases, 1, <<>>, <<>>)
        merged ==
            IF m.carry = <<>> THEN m.merged
            ELSE IF m.merged # <<>> THEN PushToLast(m.merged, m.carry)
                 ELSE Append(m.merged, m.carry)
    IN  IF trimmed = <<>> THEN <<>>
        ELSE IF str_len(trimmed) < 80 THEN <<trimmed>>
        ELSE IF merged = <<>> THEN <<trimmed>>
        ELSE merged

\* The pieces of a text: no word, a short or a long word of the letter a or
\* of the letter e with an acute accent (two bytes), followed by a space, a
\* full stop and a space, a line feed, or a full stop.
Pieces ==
    {[i \in 1..n |-> c] \o sep :
        n \in {0, 2, LongWord}, c \in {97, 233},
        sep \in {<<32>>, <<46, 32>>, <<10>>, <<46>>}}

PhrAppend ==
    /\ phr.out = <<>>
    /\ phr.pieces < MaxPieces
    /\ \E piece \in Pieces :
        phr' = [phr EXCEPT !.text = @ \o piece, !.pieces = @ + 1]
    /\ PhrOnly

PhrSplit ==
    /\ phr.out = <<>>
    /\ phr' = [phr EXCEPT !.out = <<split_into_phrases(phr.text)>>]
    /\ PhrOnly

\* ---------------------------------------------------- ensure_model_exists

DlOnly ==
    UNCHANGED <<pipeVars, ringVars, acc, api, ws, vad, phr, sse>>

\* The call returns Err(SttError::DownloadError) through `?` or return.
DlErr(d) ==
    [d EXCEPT !.pc = "idle", !.ret = "Err"]

\* ensure_model_exists is called; model_path.exists() (97-100).
DlCall ==
    /\ dl.pc = "idle"
    /\ dl.calls < MaxCalls
    /\ dl' = IF dl.model_path # <<>>
             THEN [dl EXCEPT !.ret = "Ok", !.calls = @ + 1]
             ELSE [dl EXCEPT !.pc = "create_dir", !.ret = "none", !.calls = @ + 1,
                             !.body = 0, !.downloaded = 0]
    /\ DlOnly

\* create_dir_all(..).await (103-105).
DlCreateDir ==
    /\ dl.pc = "create_dir"
    /\ \E ok \in BOOLEAN :
        dl' = IF ok THEN [dl EXCEPT !.pc = "send"] ELSE DlErr(dl)
    /\ DlOnly

\* client.get(..).send().await and the status check (114-126): the response
\* has a body of some number of chunks.
DlSend ==
    /\ dl.pc = "send"
    /\ \/ dl' = DlErr(dl)
       \/ \E body \in 0..MaxChunks :
            dl' = [dl EXCEPT !.pc = "create", !.body = body]
    /\ DlOnly

\* File::create(&tmp_path).await (131-134) creates the file or truncates it.
DlCreate ==
    /\ dl.pc = "create"
    /\ \E ok \in BOOLEAN :
        dl' = IF ok
              THEN [dl EXCEPT !.pc = "next",
                              !.tmp_path = <<[size |-> 0, body |-> dl.body]>>]
              ELSE DlErr(dl)
    /\ DlOnly

\* The mutant: a stream error ends the loop as the end of the body does.
DlNext_ignores_error ==
    /\ dl.pc = "next"
    /\ \/ dl.downloaded < dl.body /\ dl' = [dl EXCEPT !.pc = "write"]
       \/ dl.downloaded < dl.body /\ dl' = [dl EXCEPT !.pc = "flush"]
       \/ dl.downloaded = dl.body /\ dl' = [dl EXCEPT !.pc = "flush"]
    /\ DlOnly

\* stream.next().await (141-143): the next chunk, a stream error, or None at
\* the end of the body.
DlNext ==
    /\ dl.pc = "next"
    /\ \/ dl.downloaded < dl.body /\ dl' = [dl EXCEPT !.pc = "write"]
       \/ dl.downloaded < dl.body /\ dl' = DlErr(dl)
       \/ dl.downloaded = dl.body /\ dl' = [dl EXCEPT !.pc = "flush"]
    /\ DlOnly

\* file.write_all(&chunk).await (144-147).
DlWrite ==
    /\ dl.pc = "write"
    /\ \E ok \in BOOLEAN :
        dl' = IF ok
              THEN [dl EXCEPT !.pc = "next", !.downloaded = @ + 1,
                              !.tmp_path[1].size = @ + 1]
              ELSE DlErr(dl)
    /\ DlOnly

\* file.flush().await; drop(file) (164-167).
DlFlush ==
    /\ dl.pc = "flush"
    /\ \E ok \in BOOLEAN :
        dl' = IF ok THEN [dl EXCEPT !.pc = "rename"] ELSE DlErr(dl)
    /\ DlOnly

\* tokio::fs::rename(&tmp_path, &model_path).await; Ok(model_path) (170-176).
DlRename ==
    /\ dl.pc = "rename"
    /\ \E ok \in BOOLEAN :
        dl' = IF ok
              THEN [dl EXCEPT !.pc = "idle", !.ret = "Ok",
                              !.model_path = dl.tmp_path, !.tmp_path = <<>>]
              ELSE DlErr(dl)
    /\ DlOnly

\* The future of the call is dropped at an await, or the process ends there.
DlDropped ==
    /\ dl.pc # "idle"
    /\ dl' = [dl EXCEPT !.pc = "idle", !.ret = "none"]
    /\ DlOnly

\* ---------------------------------------- the stream parser of stream_request

SseOnly ==
    UNCHANGED <<pipeVars, ringVars, acc, api, ws, vad, phr, dl>>

\* String::from_utf8_lossy on the bytes of one chunk (499), as characters: the
\* two bytes of a two-byte character next to each other are that character
\* ("e"), either of them alone is U+FFFD ("fffd"), an ASCII unit is itself.
RECURSIVE lossy_text(_)
lossy_text(bytes) ==
    IF bytes = <<>> THEN <<>>
    ELSE IF Len(bytes) >= 2 /\ bytes[1] = "c1" /\ bytes[2] = "c2"
    THEN <<"e">> \o lossy_text(SubSeq(bytes, 3, Len(bytes)))
    ELSE IF Head(bytes) \in {"c1", "c2"}
    THEN <<"fffd">> \o lossy_text(Tail(bytes))
    ELSE <<Head(bytes)>> \o lossy_text(Tail(bytes))

\* str::split('\n') (505): the pieces between line feeds, at least one.
RECURSIVE split_lines(_)
split_lines(txt) ==
    IF \A i \in 1..Len(txt) : txt[i] # "n" THEN <<txt>>
    ELSE LET k == CHOOSE i \in 1..Len(txt) :
                      txt[i] = "n" /\ \A j \in 1..(i - 1) : txt[j] # "n"
         IN  <<SubSeq(txt, 1, k - 1)>> \o split_lines(SubSeq(txt, k + 1, Len(txt)))

\* One line (521-541): <<content>> when it has the prefix `data: `, is not
\* [DONE] and parses as JSON with a content delta; <<>> otherwise.  The lines
\* of the model carry no surrounding whitespace for trim to remove.
delta_content(ln) ==
    IF Len(ln) >= 1 /\ ln[1] = "d"
    THEN LET payload == Tail(ln)
         IN  IF /\ Len(payload) >= 2
                /\ payload[1] = "{" /\ payload[Len(payload)] = "}"
                /\ \A i \in 2..(Len(payload) - 1) : payload[i] \in {"x", "e", "fffd"}
             THEN <<SubSeq(payload, 2, Len(payload) - 1)>>
             ELSE <<>>
    ELSE <<>>

\* The content deltas of the lines lns, in order.
RECURSIVE stream_tokens(_)
stream_tokens(lns) ==
    IF lns = <<>> THEN <<>>
    ELSE delta_content(Head(lns)) \o stream_tokens(Tail(lns))

\* The texts toks put together.
RECURSIVE push_all(_)
push_all(toks) ==
    IF toks = <<>> THEN <<>> ELSE Head(toks) \o push_all(Tail(toks))

\* The lines of a response: a content delta of one ASCII byte, one of a
\* two-byte character, [DONE], malformed JSON, and the empty line between events.
SseLines ==
    {<<"d", "{", "x", "}">>, <<"d", "{", "c1", "c2", "}">>, <<"d", "D">>,
     <<"d", "{">>, <<>>}

\* The body made of the lines lns, each but the last followed by a line feed, the
\* last one too if terminated.
RECURSIVE SseBody(_, _)
SseBody(lns, terminated) ==
    IF lns = <<>> THEN <<>>
    ELSE Head(lns)
           \o (IF Len(lns) > 1 \/ terminated THEN <<"n">> ELSE <<>>)
           \o SseBody(Tail(lns), terminated)

\* response.bytes_stream() of a response with status 200 (487).
SseBegin ==
    /\ sse.pc = "idle"
    /\ \E k \in 1..MaxLines : \E lns \in [1..k -> SseLines] : \E terminated \in BOOLEAN :
        sse' = [SseNone EXCEPT !.pc = "loop", !.body = SseBody(lns, terminated)]
    /\ SseOnly

\* One turn of the loop (492-568) on a chunk of n bytes, with the abort flag
\* down: decode the chunk, put leftover before it, split at line feeds, keep an
\* unterminated last piece as leftover, and handle the other lines.
SseChunk ==
    /\ sse.pc = "loop"
    /\ \E n \in 1..(Len(sse.body) - sse.pos) :
        LET txt == lossy_text(SubSeq(sse.body, sse.pos + 1, sse.pos + n))
            comb == sse.leftover \o txt
            lns == split_lines(comb)
            left == IF comb[Len(comb)] # "n" THEN lns[Len(lns)] ELSE <<>>
            line_count == IF left = <<>> THEN Len(lns) ELSE Len(lns) - 1
            toks == stream_tokens(SubSeq(lns, 1, line_count))
        IN  sse' = [sse EXCEPT !.pos = @ + n,
                               !.leftover = left,
                               !.full_response = @ \o push_all(toks),
                               !.tokens = @ \o toks]
    /\ SseOnly

\* stream.next() yields None (492): the loop ends and stream_request returns
\* full_response (571-594).
SseEnd ==
    /\ sse.pc = "loop"
    /\ sse.pos = Len(sse.body)
    /\ sse' = [sse EXCEPT !.pc = "ended"]
    /\ SseOnly

\* ---------------------------------------------------------- specifications

\* A speak call with no other speak call in flight: the state is not Speaking
\* when it begins, so it neither raises tts_cancel nor polls for the engine.
SpeakSolo(s) ==
    \/ Speak(s) \/ SpeakReset(s)
    \/ SetSpeakingState(s) \/ SetSpeakingEmit(s) \/ SpeakTake(s) \/ SpeakSplit(s)
    \/ OneshotSynth(s) \/ RestoreAndFinish(s)
    \/ StreamCheck(s) \/ StreamSynth(s) \/ StreamSend(s) \/ StreamDrop(s)
    \/ SpeakJoin(s) \/ SpeakEmitError(s)
    \/ FinishMode(s) \/ FinishCas(s) \/ FinishEmit(s) \/ SpeakReturn(s)
    \/ PlayOpen(s) \/ PlayCheck(s) \/ PlayRecv(s) \/ PlayDrain(s) \/ SinkPlayed(s)

\* A speak call when the TTS engine failed to load: Error, then finish_speaking.
SpeakNoEngine(s) ==
    \/ Speak(s) \/ SpeakReset(s)
    \/ SetSpeakingState(s) \/ SetSpeakingEmit(s) \/ SpeakTake(s) \/ SpeakEmitError(s)
    \/ FinishMode(s) \/ FinishCas(s) \/ FinishEmit(s) \/ SpeakReturn(s)

\* The recording path: the processing task and the control caller, no speak call.
RecInit == Init /\ tts_engine

RecNext ==
    \/ ProcNext
    \/ StartRecording \/ BeginRecording
    \/ StopRecording \/ StopRecordingStore
    \/ SetMode \/ SetModeLoad \/ SetModeStore \/ SetModeEmit
    \/ StopSpeaking \/ CtlReturn \/ Stop

RecSpec == RecInit /\ [][RecNext]_vars

\* start_recording and stop_recording from every state: the processing task, the
\* two calls, and speak calls of a pipeline whose TTS engine failed to load.
FrameInit == Init /\ stt_engine /\ ~tts_engine /\ mode # "Toggle"

FrameNext ==
    \/ ProcRun
    \/ StartRecording \/ StartRecordingCancel \/ BeginRecording
    \/ StopRecording \/ StopRecordingStore
    \/ CtlReturn
    \/ SpeakNoEngine(1)

FrameSpec == FrameInit /\ [][FrameNext]_vars

\* Barge-in: a speak call, start_recording and the processing task, in WakeWord
\* mode, where the processing task starts recordings of its own.
BargeInit == Init /\ stt_engine /\ mode = "WakeWord"

BargeNext ==
    \/ ProcRun
    \/ StartRecording \/ StartRecordingCancel \/ BeginRecording
    \/ CtlReturn
    \/ SpeakSolo(1)

BargeSpec == BargeInit /\ [][BargeNext]_vars

\* Overlapping speak calls, and stop_speaking.
OverlapInit == Init /\ stt_engine

OverlapNext ==
    \/ StopSpeaking
    \/ CtlReturn
    \/ \E s \in Speakers : SpeakNext(s)

OverlapSpec == OverlapInit /\ [][OverlapNext]_vars

\* A speak call with barge-in and stop_speaking, scheduled fairly: the runtime
\* runs the speak task and its blocking worker whenever they can step, and the
\* output device plays what is queued.
SpeakCtlNext ==
    \/ StartRecording \/ StartRecordingCancel \/ BeginRecording
    \/ StopSpeaking \/ CtlReturn
    \/ SpeakSolo(1)

SpeakFairSpec ==
    /\ Init
    /\ [][SpeakCtlNext]_vars
    /\ WF_vars(SpeakSolo(1))

\* A speak call whose engine is the cloud adapter, with stop_speaking.
EdgeInit == Init /\ tts_engine /\ stt_engine

EdgeNext ==
    \/ StopSpeaking \/ CtlReturn
    \/ Speak(1) \/ SpeakReset(1)
    \/ SetSpeakingState(1) \/ SetSpeakingEmit(1) \/ SpeakTake(1) \/ SpeakSplit(1)
    \/ EdgeSynthesize(1) \/ EdgeLoop \/ EdgeRead
    \/ EdgeOneshotSynth(1) \/ EdgeStreamSynth(1) \/ RestoreAndFinish(1)
    \/ StreamCheck(1) \/ StreamSend(1) \/ StreamDrop(1)
    \/ SpeakJoin(1) \/ SpeakEmitError(1)
    \/ FinishMode(1) \/ FinishCas(1) \/ FinishEmit(1) \/ SpeakReturn(1)
    \/ PlayOpen(1) \/ PlayCheck(1) \/ PlayRecv(1) \/ PlayDrain(1) \/ SinkPlayed(1)

EdgeSpec == EdgeInit /\ [][EdgeNext]_vars

\* A RingBuffer under any sequence of calls; the pipeline is at rest.
RingInit == Init /\ stt_engine /\ tts_engine /\ mode = "WakeWord"

RingNext ==
    RingCreate \/ RingPush \/ RingPop \/ RingDrain

RingSpec == RingInit /\ [][RingNext]_vars

\* A ToolCallAccumulator over one response stream.
AccInit == Init /\ stt_engine /\ tts_engine /\ mode = "WakeWord"

AccNext ==
    AccAccumulate \/ AccFinish

AccSpec == AccInit /\ [][AccNext]_vars

\* A slot as the stream of a response leaves it.
Slot(id, name) ==
    [id |-> id, name |-> name, arguments |-> <<>>]

\* An ApiProvider whose responses call one tool, by an id of the stream.
LimitCalls == {<<>>, <<Slot(<<"a">>, <<"f">>)>>}

ApiInit == Init /\ stt_engine /\ tts_engine /\ mode = "WakeWord"

LimitNext ==
    \/ ApiCreate \/ ApiSetTools \/ ApiStart \/ ApiStop \/ ApiSendInput
    \/ ApiStreamEnd(LimitCalls)
    \/ ApiAddAssistant \/ ApiCheck \/ ApiInject

LimitSpec == ApiInit /\ [][LimitNext]_vars

\* An ApiProvider whose responses call one or two tools, with or without an id
\* in the stream.
TrimCalls ==
    {<<Slot(<<"a">>, <<"f">>)>>,
     <<Slot(<<"b">>, <<"f">>), Slot(<<>>, <<"f">>)>>}

\* The tools are set before the provider is started.
SetToolsFirst ==
    ~api.running /\ ApiSetTools

TrimNext ==
    \/ ApiCreate \/ SetToolsFirst \/ ApiStart \/ ApiSendInput
    \/ ApiStreamEnd(TrimCalls)
    \/ ApiAddAssistant \/ ApiCheck \/ ApiInject

TrimSpec == ApiInit /\ [][TrimNext]_vars

\* The lifecycle of a provider, native or local, whose responses call two
\* tools, or one tool found in the text.
LifeCalls == {<<>>, <<Slot(<<"a">>, <<"f">>), Slot(<<"b">>, <<"f">>)>>}

LifeNext ==
    \/ ApiCreate \/ ApiCreateLocal \/ ApiSetTools
    \/ ApiStart \/ ApiStop \/ ApiInterrupt \/ ApiSendInput
    \/ ApiStreamEnd(LifeCalls)
    \/ ApiAddAssistant \/ ApiCheck \/ ApiInject

LifeSpec == ApiInit /\ [][LifeNext]_vars

\* A provider, native or local, started once, with the steps of the stream task
\* of its first request.
StartFirst ==
    api.op \in {"new", "set_tools"} /\ ApiStart

SendFirst ==
    api.task.pc = "none" /\ ApiSendInput

StreamNext ==
    \/ ApiCreate \/ ApiCreateLocal \/ SetToolsFirst \/ StartFirst
    \/ SendFirst \/ ApiInterrupt \/ ApiStop
    \/ TaskRequest \/ TaskNext \/ TaskCheck \/ TaskLine
    \/ TaskResult \/ TaskResponse \/ TaskErrAbort \/ TaskErrRunning

StreamSpec == ApiInit /\ [][StreamNext]_vars

\* A provider started once and sent inputs at any time, with the steps of the
\* stream task of its latest request and of the task detached before it.
ResendNext ==
    \/ ApiCreate \/ StartFirst
    \/ ApiSendInput \/ ApiInterrupt \/ ApiStop
    \/ TaskRequest \/ TaskNext \/ TaskCheck \/ TaskLine
    \/ TaskResult \/ TaskResponse \/ TaskErrAbort \/ TaskErrRunning
    \/ DetachedChunk

ResendSpec == ApiInit /\ [][ResendNext]_vars

\* The whole pipeline.
Next ==
    \/ ProcNext
    \/ CtlNext
    \/ \E s \in Speakers : SpeakNext(s)

Spec == Init /\ [][Next]_vars

\* A frame written by the client and read back from the stream.
WsInit == Init /\ stt_engine /\ tts_engine /\ mode = "WakeWord"

WsNext ==
    WsSend \/ WsLoopback

WsSpec == WsInit /\ [][WsNext]_vars

\* The receive loop of synthesize_ws against the frames of the server.
RecvNext ==
    WsServer \/ WsRecv

RecvSpec == WsInit /\ [][RecvNext]_vars

\* A VadProcessor under any sequence of calls while time passes.
VadNext ==
    VadNew \/ VadProcessFrame \/ VadSetThreshold \/ VadReset \/ VadTick

VadSpec == WsInit /\ [][VadNext]_vars

\* split_into_phrases on the texts of up to MaxPieces pieces.
PhrNext ==
    PhrAppend \/ PhrSplit

PhrSpec == WsInit /\ [][PhrNext]_vars

\* Calls of ensure_model_exists for one model, one at a time, with every
\* failure of the file system, the request and the stream.
DlSteps ==
    \/ DlCall \/ DlCreateDir \/ DlSend \/ DlCreate \/ DlNext \/ DlWrite
    \/ DlFlush \/ DlRename \/ DlDropped

DlSpec == WsInit /\ [][DlSteps]_vars

\* ------------------------------------------------------------------ claims

\* C1: the compare-and-swap step of finish_speaking changes the state only when
\* the state is Speaking at that moment, and then to the resting state the call
\* computed; in particular a state of Recording, set by a barge-in of
\* start_recording on that speak call, is left as it is.
C1_FinishCasKeepsRecording ==
    [][\A s \in Speakers :
          (sp[s].pc = "fin_cas" /\ sp'[s].pc = "fin_emit") =>
             /\ state # "speaking" => state' = state /\ ~sp'[s].swapped
             /\ state = "speaking" => state' = sp[s].next /\ sp'[s].swapped
             /\ state' # state => state' \in {"listening", "idle"}]_vars

\* start_recording barged in on speak call 1 (it found Speaking, raised tts_cancel
\* and stored Recording), and the call's compare-and-swap has since failed.
C1_BargeInThenCas ==
    /\ ctlOp = "start_recording" /\ ctlArg = "speaking" /\ ctlPc = "ret"
    /\ cancelSeen[1]
    /\ sp[1].pc = "fin_emit" /\ ~sp[1].swapped
    /\ state = "recording"

\* C2: a speak call emits SpeakingStart before any of its audio is queued, emits
\* no SpeakingEnd before it has joined its playback worker and exactly one by the
\* time it returns, emits the StateChange to Listening/Idle exactly when its
\* compare-and-swap succeeded, and, once it has emitted SpeakingStart, goes on
\* to return (on every path: no engine, cancelled, oneshot, streaming, synthesis
\* or playback error, barge-in).
C2_Events ==
    \A s \in Speakers :
        /\ sp[s].started <=> sp[s].pc \notin {"idle", "sp_cancel", "sp_poll",
                                              "sp_reset", "sp_state", "sp_emit"}
        /\ sp[s].ends = (IF sp[s].pc = "ret" THEN 1 ELSE 0)
        /\ sp[s].pc = "ret" => sp[s].sc = sp[s].swapped
        /\ sp[s].sc => sp[s].pc = "ret"
        /\ wk[s].pc # "none" => sp[s].started /\ sp[s].ends = 0
        /\ wk[s].sink => wk[s].pc \notin {"none", "done"}
        /\ sp[s].pc \in {"fin_mode", "fin_cas", "fin_emit", "ret"} => wk[s].pc = "none"

C2_StartThenOneEnd ==
    /\ []C2_Events
    /\ \A s \in Speakers : sp[s].started ~> (sp[s].pc = "ret" /\ sp[s].ends = 1)

\* A speak call that start_recording barged in on has returned: SpeakingStart,
\* one SpeakingEnd, a failed compare-and-swap and no StateChange.
C2_BargedCallReturned ==
    /\ sp[1].pc = "ret" /\ sp[1].started /\ sp[1].ends = 1
    /\ ~sp[1].swapped /\ ~sp[1].sc
    /\ state = "recording" /\ ctlOp = "start_recording" /\ ctlArg = "speaking"

\* C3: in every recording cycle RecordingStart comes first: no RecordingStop
\* and no Transcription is emitted in a cycle whose RecordingStart has not been
\* emitted.
C3_StartPrecedesStop ==
    obs.cycStop => obs.cycStart

\* C4: a speak call invoked while the state is Speaking raises tts_cancel and
\* waits for the engine slot, so that it is serialized after the calls that
\* were in progress then: it does not synthesize or play audio while one of them
\* still synthesizes (is in engine.synthesize) or plays (its Sink holds audio).
C4_Serialized ==
    \A t \in Speakers :
        \A s \in sp[t].prev :
          ~ /\ sp[s].pc \in {"one_synth", "str_synth"} \/ wk[s].sink
            /\ sp[t].pc \in {"one_synth", "str_synth"} \/ wk[t].sink

\* C5: once a control call has raised tts_cancel while a speak call is in
\* progress, that call synthesizes no further phrase: the cancel check at the
\* head of its synthesis loop does not let it go on to the next phrase.
C5_NoFurtherPhrase ==
    [][\A s \in Speakers :
          cancelSeen[s] /\ sp[s].pc = "str_check" => sp'[s].pc # "str_synth"]_vars

\* C6: an STT run that took the engine out of its slot leaves the slot holding
\* the engine when it completes, however the transcription worker ended
\* (text, empty text, error, panic).
C6_SttEngineReturned ==
    [][(/\ procPc \in {"stt_restore", "stt_emit"}
        /\ procPc' = "fin_mode"
        /\ sttOut # "noengine") => stt_engine' = TRUE]_vars

\* C7: set_mode changes the voice state only from Listening or Idle: the state
\* its store overwrites is never Recording, Processing or Speaking.
C7_SetModeKeepsBusyState ==
    [][ctlPc = "sm_store" /\ ctlPc' = "sm_emit" =>
          state \notin {"recording", "processing", "speaking"}]_vars

\* C8: once the operations that change the voice state have completed (the
\* processing task is between ticks, no control call is in progress), the most
\* recent StateChange event names the current state; before any StateChange the
\* state is the initial Idle.
C8_LastStateChangeNamesState ==
    procPc \in {"tick", "ended"} /\ ctlPc \in {"idle", "stopped"} =>
        \/ obs.lastSC = state
        \/ obs.lastSC = "none" /\ state = "idle"

\* C9: a start_recording call that ran undisturbed (no other thread wrote a
\* shared cell or emitted an event meanwhile) and found Idle, Listening or
\* Speaking leaves the state Recording, the recording buffer empty and
\* force_stop_recording false, has emitted RecordingStart{manual} and then
\* StateChange{recording} and nothing else, has raised tts_cancel if it found
\* Speaking (before it stored Recording) and left it alone otherwise; one that
\* found Recording or Processing changed no cell and emitted nothing.
C9_StartRecordingEffect ==
    ctlOp = "start_recording" /\ ctlPre # NoSnap =>
        /\ ctlArg = ctlPre[1]
        /\ ctlPc \in {"br_clear", "br_store", "br_emit", "ret"} /\ ctlArg = "speaking"
              => tts_cancel
        /\ ctlPc = "ret" /\ ctlArg \in {"recording", "processing"} =>
              sharedVars = ctlPre /\ ctlEmits = <<>>
        /\ ctlPc = "ret" /\ ctlArg \in {"idle", "listening", "speaking"} =>
              /\ state = "recording"
              /\ recording_buf = 0
              /\ ~force_stop_recording
              /\ tts_cancel = (ctlPre[4] \/ ctlArg = "speaking")
              /\ <<mode, running, stt_engine, tts_engine>>
                   = <<ctlPre[2], ctlPre[3], ctlPre[7], ctlPre[8]>>
              /\ ctlEmits = <<<<"RecordingStart", "manual">>,
                              <<"StateChange", "recording">>>>

\* start_recording has barged in, undisturbed, on a speak call, at a moment when
\* the recording buffer held audio and force_stop_recording was set.
C9_BargeInCleared ==
    /\ ctlOp = "start_recording" /\ ctlPc = "ret" /\ ctlPre # NoSnap
    /\ ctlArg = "speaking"
    /\ ctlPre[5] /\ ctlPre[6] > 0 /\ ~ctlPre[4]
    /\ state = "recording"

\* C10: a stop_recording call that ran undisturbed and found Recording has set
\* force_stop_recording and changed nothing else; one that found another state
\* changed no cell; neither emits an event.  The flag is set only while a stop
\* request is pending, and a tick that reaches the Recording branch's check with
\* the flag set resets it and goes on to store Processing whatever the VAD says,
\* which takes up the request: one request ends at most one recording.
C10_StopRecordingState ==
    /\ force_stop_recording => obs.stopReq
    /\ ctlOp = "stop_recording" /\ ctlPc = "ret" /\ ctlPre # NoSnap =>
          /\ ctlArg = ctlPre[1]
          /\ ctlEmits = <<>>
          /\ IF ctlArg = "recording"
             THEN /\ force_stop_recording
                  /\ <<state, mode, running, tts_cancel, recording_buf, stt_engine,
                       tts_engine>>
                       = <<ctlPre[1], ctlPre[2], ctlPre[3], ctlPre[4], ctlPre[6],
                           ctlPre[7], ctlPre[8]>>
             ELSE sharedVars = ctlPre

C11_SynthesisFailureEmitted ==
    \A s \in Speakers : sp[s].pc = "ret" => sp[s].synFail = "none"

\* C12: once a control call has raised tts_cancel during a speak call whose
\* synthesis is in flight in the cloud adapter, the adapter's receive loop
\* reads no further frame.
C12_CancelStopsReadLoop ==
    [][edge.pc = "loop" /\ cancelSeen[edge.call] => edge'.pc # "read"]_vars

\* C13: when N samples were pushed into a new or drained buffer of capacity C
\* and nothing was popped, drain_all returns the last min(N, C) of them in push
\* order and leaves available() = 0.
C13_DrainReturnsMostRecent ==
    ringObs.op = "drain_all" /\ ringObs.clean =>
        LET m == Min(ringObs.preN, ring.capacity)
        IN  /\ ringObs.out = [i \in 1..m |-> ringObs.preN - m + i]
            /\ ring.count = 0

\* Capacity 4, six samples pushed, drain_all returned 3, 4, 5, 6.
C13_OverflowDrained ==
    /\ ringObs.op = "drain_all" /\ ringObs.clean
    /\ ring.capacity = 4 /\ ringObs.preN = 6
    /\ ringObs.out = <<3, 4, 5, 6>>

\* The samples the buffer holds, oldest first.
RingContents ==
    [i \in 1..ring.count |-> ring.data[(ring.read_pos + i - 1) % ring.capacity]]

\* C14: the ring buffer holds what a bounded FIFO that drops its oldest
\* element holds: count <= capacity, push_slice returns the length of its
\* input, and pop_slice returns the min(buf.len, count) oldest retained samples
\* in push order and reduces available() by that number.
C14_RefinesDroppingFifo ==
    ring.capacity > 0 =>
        /\ ring.count <= ring.capacity
        /\ RingContents = ringObs.fifo
        /\ ringObs.op = "push_slice" => ringObs.ret = ringObs.arg
        /\ ringObs.op = "pop_slice" =>
              /\ ringObs.ret = Min(ringObs.arg, Len(ringObs.pre))
              /\ \A i \in 1..ringObs.ret : ringObs.out[i] = ringObs.pre[i]
              /\ ring.count = Len(ringObs.pre) - ringObs.ret

\* pop_slice after an overflow: the oldest samples were dropped, the read
\* cursor has wrapped, and the call returned part of what was retained.
C14_PopAfterOverflow ==
    /\ ringObs.op = "pop_slice" /\ ringObs.ret = 2 /\ ring.count > 0
    /\ ringObs.out[1] > 1
    /\ ringObs.n > ring.capacity

\* The arguments fragments of the deltas of log addressed to slot index i (a
\* delta without index addresses 0), concatenated in arrival order.
RECURSIVE FragmentsAt(_, _)
FragmentsAt(log, i) ==
    IF log = <<>>
    THEN <<>>
    ELSE LET d == Head(log)
             at == IF d.index = <<>> THEN 0 ELSE d.index[1]
         IN  (IF at = i THEN d.args[1] ELSE <<>>) \o FragmentsAt(Tail(log), i)

\* The position of the k-th slot of pre that has a name.
NamedIndex(pre, k) ==
    CHOOSE i \in 1..Len(pre) :
        /\ pre[i].name # <<>>
        /\ Cardinality({j \in 1..i : pre[j].name # <<>>}) = k

\* C15: the arguments text of the slot at index i, and of the call completed
\* from it, is the concatenation in arrival order of exactly the non-empty
\* arguments fragments addressed to i.
C15_ArgumentsAreFragmentsInOrder ==
    /\ \A i \in 1..Len(acc.calls) :
          acc.calls[i].arguments = FragmentsAt(acc.log, i - 1)
    /\ acc.req.some =>
          \A k \in 1..Len(acc.req.calls) :
            LET text == FragmentsAt(acc.log, NamedIndex(acc.pre, k) - 1)
            IN  /\ acc.req.raw[k].function.arguments = text
                /\ acc.req.calls[k].arguments = ParseArguments(text)

\* Fragments for index 0, index 1 and (no index) index 0 again, completed as
\* two calls, the first with the object the two fragments of index 0 spell.
C15_InterleavedFragments ==
    /\ acc.req.some /\ Len(acc.log) = 3 /\ Len(acc.req.calls) = 2
    /\ acc.log[1].index = <<0>> /\ acc.log[1].args = <<<<"{k:">>>>
    /\ acc.log[2].index = <<1>> /\ acc.log[2].args = <<<<"1}">>>>
    /\ acc.log[3].index = <<>> /\ acc.log[3].args = <<<<"1}">>>>
    /\ acc.req.calls[1].arguments = "{k:1}"

\* C16: a slot's id and name, once set by a non-empty write, are not changed by
\* a later delta, and its arguments text only grows at its end.
C16_IdAndNameFirstWriteWins ==
    [][~acc'.ended =>
        \A i \in 1..Len(acc.calls) :
            /\ acc.calls[i].id # <<>> => acc'.calls[i].id = acc.calls[i].id
            /\ acc.calls[i].name # <<>> => acc'.calls[i].name = acc.calls[i].name
            /\ SubSeq(acc'.calls[i].arguments, 1, Len(acc.calls[i].arguments))
                 = acc.calls[i].arguments]_vars

\* C17: take_completed leaves no slot and returns, in ascending slot order, one
\* call per slot with a name: its name, the object its arguments text parses
\* to or the empty object when the text is empty or malformed, and its id or,
\* without one, an id that begins with call_.
C17_TakeCompleted ==
    acc.req.some =>
        /\ acc.calls = <<>>
        /\ Len(acc.req.calls) =
             Cardinality({i \in 1..Len(acc.pre) : acc.pre[i].name # <<>>})
        /\ \A k \in 1..Len(acc.req.calls) :
            LET slot == acc.pre[NamedIndex(acc.pre, k)]
                call == acc.req.calls[k]
            IN  /\ call.name = slot.name
                /\ slot.arguments # <<"{k:", "1}">> => call.arguments = "{}"
                /\ slot.arguments = <<"{k:", "1}">> => call.arguments = "{k:1}"
                /\ slot.id # <<>> => call.id = slot.id
                /\ slot.id = <<>> => Len(call.id) = 2 /\ call.id[1] = "call_"

\* A slot without name before a named slot that has no id and a malformed
\* arguments text: one call, with a generated id and the empty object.
C17_FilteredAndSynthesized ==
    /\ acc.req.some /\ Len(acc.pre) = 2 /\ Len(acc.req.calls) = 1
    /\ acc.pre[1].name = <<>> /\ acc.pre[1].id # <<>>
    /\ acc.pre[2].name # <<>> /\ acc.pre[2].id = <<>>
    /\ acc.pre[2].arguments = <<"1}">>
    /\ acc.req.calls[1].id = <<"call_", "u2">>
    /\ acc.req.calls[1].arguments = "{}"

\* C18: the entries of raw_tool_calls carry, in the same order, the ids and the
\* names of the completed calls of the same ToolCalls event.
C18_RawCarriesCompletedIds ==
    acc.req.some =>
        /\ Len(acc.req.raw) = Len(acc.req.calls)
        /\ \A k \in 1..Len(acc.req.calls) :
            /\ acc.req.raw[k].id = acc.req.calls[k].id
            /\ acc.req.raw[k].function.name = acc.req.calls[k].name

\* The role:tool message at position i of a history has, before it, an
\* assistant message whose tool_calls carry its tool_call_id.
PairedAt(messages, i) ==
    \E j \in 1..(i - 1) :
        /\ messages[j].role = "assistant"
        /\ \E k \in 1..Len(messages[j].tool_calls) :
            messages[j].tool_calls[k].id = messages[i].tool_call_id

\* C19: in a history built by user messages and by add_assistant_tool_call_message
\* followed by inject_tool_results on a provider with native tool calling, after
\* limit_message_history (run on entry of the send path) every role:tool message
\* is preceded by an assistant message carrying its tool_call_id.
C19_ToolResultsPairedAfterTrim ==
    api.op \in {"send_input", "send_empty", "inject"} /\ api.running
        => \A i \in 1..Len(api.messages) :
            api.messages[i].role = "tool" => PairedAt(api.messages, i)

\* What holds of the trimmed history: the role:tool messages whose id came with
\* the stream are paired, whatever the trim removed.
C19_StreamedIdsPaired ==
    \A i \in 1..Len(api.messages) :
        /\ api.messages[i].role = "tool"
        /\ Head(api.messages[i].tool_call_id) # "call_"
        => PairedAt(api.messages, i)

\* C20: between two resets of a user turn (a non-empty user message, start or
\* stop), with the upstream calling check_tool_iteration_limit before each
\* inject_tool_results and not injecting once it returned true:
\* inject_tool_results enters the send path at most 10 times; the check returns
\* false on its first 10 calls and true, emitting the Output event, on every
\* later call; and the counter goes back to 0 only by a non-empty user message,
\* start or stop.
C20_ToolIterationBound ==
    /\ [](api.follow <= 10)
    /\ [](api.op = "check" =>
            /\ api.ret = (IF api.checks > 10 THEN "true" ELSE "false")
            /\ (api.out = "MaxIterations") = (api.checks > 10))
    /\ [][api.current_tool_iteration # 0 /\ api'.current_tool_iteration = 0
            => api'.op \in {"send_input", "start", "stop"}]_vars

\* The twelfth check of a turn returned true after ten follow-up requests.
C20_LimitReached ==
    /\ api.op = "check"
    /\ api.checks = 12
    /\ api.follow = 10
    /\ api.ret = "true"

\* The events of a request other than its stream tokens.
Terminal(ev) ==
    LET NotToken(e) == e[1] # "StreamToken" IN SelectSeq(ev, NotToken)

\* C21: a request whose stream ended without error, with no interrupt or stop
\* during it, has one terminal outcome: ToolCalls alone when the accumulator has
\* calls and the finish reason is tool_calls or stop; otherwise ToolCalls alone,
\* or StreamEnd and then Response with the text of the response, also when the
\* text is empty.
C21_OneTerminalOutcome ==
    api.task.pc = "done" /\ api.task.ok /\ api.task.mark = -1
        => LET term == Terminal(api.task.ev)
               text == api.task.full
           IN  /\ \/ Len(term) = 1 /\ term[1][1] = "ToolCalls"
                  \/ term = << <<"StreamEnd", text>>, <<"Response", text>> >>
               /\ api.task.calls /\ api.task.finish \in {"tool_calls", "stop"}
                    => term = << <<"ToolCalls">> >>

\* C22: once interrupt or stop has been called during a request, the request
\* sends no further event but, at most once, Output "[Cancelled]".
C22_NoEventAfterAbort ==
    api.task.mark >= 0
        => /\ Len(api.task.ev) <= api.task.mark + 1
           /\ Len(api.task.ev) = api.task.mark + 1
                => api.task.ev[api.task.mark + 1] = <<"Output", "[Cancelled]">>

\* The fields of the provider that interrupt leaves alone.
Kept(a) ==
    <<a.messages, a.tools, a.current_tool_iteration, a.running>>

\* C23: start leaves the history [system prompt] if one is configured and empty
\* otherwise, the counter 0, the provider running, and emits Ready; on a running
\* provider it returns an error and changes nothing.  stop leaves history and
\* tool list empty, the counter 0, running false and the abort flag raised.
\* interrupt raises the abort flag and aborts the stored task, and leaves
\* history, tool list, counter and running as they were.
C23_Lifecycle ==
    [][/\ api'.op = "start" /\ ~api.running
            => /\ api'.messages =
                    IF api.system_prompt THEN <<SystemMessage>> ELSE <<>>
               /\ api'.current_tool_iteration = 0
               /\ api'.running
               /\ api'.ret = "Ok" /\ api'.out = "Ready"
       /\ api'.op = "start" /\ api.running
            => /\ api'.ret = "Err" /\ api'.out = "none"
               /\ Kept(api') = Kept(api)
               /\ api'.abort_flag = api.abort_flag
               /\ api'.handle = api.handle
               /\ api'.task = api.task
       /\ api'.op = "stop"
            => /\ api'.messages = <<>>
               /\ api'.tools = <<>>
               /\ api'.current_tool_iteration = 0
               /\ ~api'.running
               /\ api'.abort_flag
       /\ api'.op = "interrupt"
            => /\ api'.abort_flag
               /\ ~api'.handle
               /\ api.handle /\ Live(api.task) => ~Live(api'.task)
               /\ Kept(api') = Kept(api)]_vars

\* interrupt was called during a request of a provider with a history, a tool
\* list and a counter above 0.
C23_InterruptedMidTurn ==
    /\ api.op = "interrupt"
    /\ api.task.pc = "cancelled"
    /\ api.running
    /\ Len(api.messages) > 1
    /\ api.tools # <<>>
    /\ api.current_tool_iteration > 0

\* C30: inject_tool_results on a running provider appends one role:tool message
\* per result, with the result's tool_call_id, in result order, if the provider
\* supports native tool calling, and one role:user message otherwise; then it
\* enters the send path, once: the history so extended is limited and a request
\* is spawned, with no further message and the counter as it was.  On a provider
\* that is not running it emits Error, appends nothing and spawns nothing.
C30_InjectToolResults ==
    [][api'.op = "inject" =>
        LET old == api.messages
            results == api.req.calls
            new == api'.pre
        IN  IF api.running
            THEN /\ Len(new) = Len(old) + (IF api.native THEN Len(results) ELSE 1)
                 /\ \A i \in 1..Len(old) : new[i] = old[i]
                 /\ api.native => \A i \in 1..Len(results) :
                        /\ new[Len(old) + i].role = "tool"
                        /\ new[Len(old) + i].tool_call_id = results[i].id
                 /\ ~api.native => new[Len(old) + 1].role = "user"
                 /\ api'.messages = limit_message_history(new)
                 /\ api'.task.pc = "request" /\ api'.handle /\ ~api'.abort_flag
                 /\ api'.current_tool_iteration = api.current_tool_iteration
                 /\ api'.out = "none"
            ELSE /\ api'.out = "Error"
                 /\ api'.messages = old
                 /\ api'.task = api.task /\ api'.handle = api.handle
                 /\ api'.current_tool_iteration = api.current_tool_iteration]_vars

\* Two results were injected on a native provider and the follow-up request was
\* spawned with both in the history.
C30_TwoResultsInjected ==
    /\ api.op = "inject"
    /\ api.native /\ api.running
    /\ Len(api.messages) >= 3
    /\ api.messages[Len(api.messages) - 1].tool_call_id = <<"a">>
    /\ api.messages[Len(api.messages)].tool_call_id = <<"b">>
    /\ api.task.pc = "request"

\* The length of the run of system messages at the start of a history.
SystemRun(h) ==
    CHOOSE k \in 0..Len(h) :
        /\ \A i \in 1..k : h[i].role = "system"
        /\ k = Len(h) \/ h[k + 1].role # "system"

\* C29: on entry of the send path, limit_message_history leaves a history of at
\* most 20 messages as it is; of a longer one it leaves the leading run of
\* system messages followed by a suffix of the history of at most 20 messages
\* that does not begin with a role:tool message.
C29_LimitMessageHistory ==
    api.op \in {"send_input", "send_empty", "inject"} /\ api.running
        => LET old == api.pre
               new == api.messages
               run == SystemRun(old)
           IN  IF Len(old) <= 20
               THEN /\ Len(new) = Len(old)
                    /\ \A i \in 1..Len(old) : new[i] = old[i]
               ELSE \E from \in run..Len(old) :
                    /\ Len(old) - from <= 20
                    /\ from < Len(old) => old[from + 1].role # "tool"
                    /\ Len(new) = run + Len(old) - from
                    /\ \A i \in 1..run : new[i] = old[i]
                    /\ \A i \in 1..(Len(old) - from) : new[run + i] = old[from + i]

\* The window of the last 20 messages began with a role:tool message, which was
\* removed with the messages before it.
C29_LeadingToolRemoved ==
    /\ api.op \in {"send_input", "send_empty", "inject"} /\ api.running
    /\ Len(api.pre) > 20
    /\ Len(api.pre) - SystemRun(api.pre) >= 20
    /\ api.pre[Len(api.pre) - 19].role = "tool"
    /\ Len(api.messages) < SystemRun(api.pre) + 20
    /\ Len(api.messages) > SystemRun(api.pre)

\* The bytes of two byte strings are the same.
SameBytes(a, b) ==
    /\ a.len = b.len
    /\ \A i \in 0..(Min(a.len, Len(a.pat) * Len(b.pat)) - 1) :
        ByteAt(a, i) = ByteAt(b, i)

\* C24: a text or binary frame written by ws_send_frame with a payload of any
\* length up to the 10 MiB cap has the FIN bit and the mask bit set, carries
\* the length in the form of its range (7 bits below 126, 16 bits up to 65535,
\* 64 bits above) and the payload XORed with mask_key[i mod 4]; ws_read_frame
\* reads it back as a frame of the same kind with the same payload bytes.
C24_FrameRoundTrip ==
    /\ ws.opcode \in {1, 2} /\ ws.wire # <<>> =>
        LET head == ws.wire[1].head
            body == ws.wire[1].body
            len == ws.sent.len
            form == IF len < 126 THEN 0 ELSE IF len <= 65535 THEN 2 ELSE 8
        IN  /\ head[1] = 128 + ws.opcode
            /\ head[2] = 128 + (CASE form = 0 -> len [] form = 2 -> 126
                                  [] OTHER -> 127)
            /\ Len(head) = 2 + form + 4
            /\ form > 0 => from_be_bytes(SubSeq(head, 3, 2 + form)) = len
            /\ body.len = len
            /\ \A i \in 0..(Min(len, 24) - 1) :
                ByteAt(body, i) =
                  BitXor(ByteAt(ws.sent, i), head[Len(head) - 3 + (i % 4)])
    /\ ws.opcode \in {1, 2} /\ ws.frame # <<>> /\ ws.sent.len <= WsPayloadCap =>
        /\ ws.frame[1].res = "Ok"
        /\ ws.frame[1].kind = (IF ws.opcode = 1 THEN "Text" ELSE "Binary")
        /\ SameBytes(ws.frame[1].payload, ws.sent)

\* A binary payload of more than 65535 bytes with bytes above 0x7f in a
\* pattern of three, read back.
C24_LongBinaryReadBack ==
    /\ ws.opcode = 2
    /\ ws.sent.len = WsPayloadCap
    /\ ws.sent.pat = <<255, 55, 65>>
    /\ ws.frame # <<>>
    /\ ws.frame[1].kind = "Binary"

\* The opcode and the payload of a frame of the server on the stream.
ServerOpcode(w) == w.head[1] % 16
ServerPayload(w) == ws_read_frame([w EXCEPT !.head[1] = 130]).payload

\* C25: in the receive loop of the cloud adapter a Ping frame makes the loop
\* write exactly one Pong frame with the payload of the Ping; a Pong frame is
\* a no-op: nothing is written, the collected audio stays and the loop goes
\* on; Text, Binary and Close frames are read as their kinds.
C25_PingPongDispatch ==
    [][ws.pc = "loop" /\ ws.wire # <<>> /\ ws'.wire = <<>> =>
        LET w == ws.wire[1]
            got == ws'.frame[1]
        IN  /\ ServerOpcode(w) = 9 =>
                /\ Len(ws'.written) = Len(ws.written) + 1
                /\ SubSeq(ws'.written, 1, Len(ws.written)) = ws.written
                /\ LET pong == ws'.written[Len(ws'.written)]
                   IN  /\ pong.head[1] = 128 + 10
                       /\ SameBytes(ws_read_frame([pong EXCEPT !.head[1] = 130]).payload,
                                    ServerPayload(w))
                /\ ws'.mp3_data = ws.mp3_data
                /\ ws'.pc = "loop"
            /\ ServerOpcode(w) = 10 =>
                /\ ws'.written = ws.written
                /\ ws'.mp3_data = ws.mp3_data
                /\ ws'.pc = "loop"
            /\ ServerOpcode(w) = 1 => got.kind = "Text"
            /\ ServerOpcode(w) = 2 => got.kind = "Binary"
            /\ ServerOpcode(w) = 8 => got.kind = "Close"
            /\ ServerOpcode(w) \notin {9, 10} => ws'.written = ws.written]_vars

\* The same without the Pong case: what holds of the code.
C25_DispatchButPong ==
    [][ws.pc = "loop" /\ ws.wire # <<>> /\ ws'.wire = <<>> =>
        LET w == ws.wire[1]
            got == ws'.frame[1]
        IN  /\ ServerOpcode(w) = 9 =>
                /\ Len(ws'.written) = Len(ws.written) + 1
                /\ LET pong == ws'.written[Len(ws'.written)]
                   IN  /\ pong.head[1] = 128 + 10
                       /\ SameBytes(ws_read_frame([pong EXCEPT !.head[1] = 130]).payload,
                                    ServerPayload(w))
                /\ ws'.mp3_data = ws.mp3_data
                /\ ws'.pc = "loop"
            /\ ServerOpcode(w) = 10 =>
                /\ Len(ws'.written) = Len(ws.written) + 1
                /\ ws'.written[Len(ws'.written)] = ws_send_frame(10, NoBytes)
                /\ ws'.mp3_data = ws.mp3_data
                /\ ws'.pc = "loop"
            /\ ServerOpcode(w) = 1 => got.kind = "Text"
            /\ ServerOpcode(w) = 2 => got.kind = "Binary"
            /\ ServerOpcode(w) = 8 => got.kind = "Close"
            /\ ServerOpcode(w) \notin {9, 10} => ws'.written = ws.written]_vars

\* C27: a frame with energy <= threshold sets the silence-start timestamp when
\* there is none and leaves it when there is one, so that silence_duration
\* does not decrease from one silent frame to the next; a frame with
\* energy > threshold, and reset, clear it: silence_duration is None and
\* silence_exceeded is false for every timeout.
C27_SilenceTimer ==
    [][/\ vad'.op = "frame" /\ vad' # vad /\ Le(vad'.energy, vad.threshold) =>
            /\ vad'.silence_start =
                 (IF vad.silence_start = <<>> THEN <<vad.now>> ELSE vad.silence_start)
            /\ vad.silence_start # <<>> =>
                 silence_duration(vad')[1] >= silence_duration(vad)[1]
       /\ vad'.op = "tick" /\ vad.silence_start # <<>> =>
            /\ vad'.silence_start = vad.silence_start
            /\ silence_duration(vad')[1] >= silence_duration(vad)[1]
       /\ \/ vad'.op = "frame" /\ vad' # vad /\ Gt(vad'.energy, vad.threshold)
          \/ vad'.op = "reset" /\ vad' # vad
          =>
            /\ silence_duration(vad') = <<>>
            /\ \A timeout \in 0..MaxClock : ~silence_exceeded(vad', timeout)
      ]_vars

\* A second silent frame, later than the first, after which the silence has
\* lasted since the first.
C27_SecondSilentFrame ==
    /\ vad.op = "frame"
    /\ Le(vad.energy, vad.threshold)
    /\ vad.silence_start = <<0>>
    /\ vad.now = 2
    /\ vad.frame_count = 2
    /\ silence_exceeded(vad, 2)

\* The words of a text: its maximal runs of characters that are not
\* whitespace, in order.
RECURSIVE WordsFrom(_, _, _)
WordsFrom(s, i, word) ==
    LET spaces == {j \in i..Len(s) : is_whitespace(s[j])}
        e == IF spaces = {} THEN Len(s) + 1
             ELSE CHOOSE j \in spaces : \A k \in spaces : j <= k
        w == word \o SubSeq(s, i, e - 1)
        found == IF w = <<>> THEN <<>> ELSE <<w>>
    IN  IF spaces = {} THEN found
        ELSE found \o WordsFrom(s, e + 1, <<>>)

RECURSIVE JoinSpaces(_)
JoinSpaces(v) ==
    IF v = <<>> THEN <<>>
    ELSE IF Len(v) = 1 THEN v[1]
    ELSE v[1] \o <<32>> \o JoinSpaces(Tail(v))

\* C26: the phrases of split_into_phrases, joined with single spaces, have
\* the words of the text, in order; a text that is empty or only whitespace
\* gives no phrase, and a text that is shorter than 80 characters when
\* trimmed gives exactly one phrase.
C26_PhrasesKeepWords ==
    phr.out # <<>> =>
        /\ WordsFrom(JoinSpaces(phr.out[1]), 1, <<>>) = WordsFrom(phr.text, 1, <<>>)
        /\ trim(phr.text) = <<>> => phr.out[1] = <<>>
        /\ trim(phr.text) # <<>> /\ Len(trim(phr.text)) < 80 => Len(phr.out[1]) = 1

\* The same with the length of the trimmed text counted in bytes: what holds
\* of the code.
C26_ShortInBytes ==
    phr.out # <<>> =>
        /\ WordsFrom(JoinSpaces(phr.out[1]), 1, <<>>) = WordsFrom(phr.text, 1, <<>>)
        /\ trim(phr.text) = <<>> => phr.out[1] = <<>>
        /\ trim(phr.text) # <<>> /\ str_len(trim(phr.text)) < 80 => Len(phr.out[1]) = 1

\* C28: a file appears at the final model path only by the rename of the
\* .tmp file, after the whole body was written to it and flushed; in every
\* state a file at the final path is a complete download, and a call that
\* returns an error has not created the final path.
C28_NoPartialModel ==
    [][/\ dl'.model_path # <<>> => dl'.model_path[1].size = dl'.model_path[1].body
       /\ dl.model_path = <<>> /\ dl'.model_path # <<>> =>
            /\ dl.pc = "rename"
            /\ dl.tmp_path # <<>>
            /\ dl.tmp_path[1].size = dl.body
            /\ dl.downloaded = dl.body
            /\ dl'.model_path = dl.tmp_path
            /\ dl'.ret = "Ok"
       /\ dl'.ret = "Err" /\ dl.pc # "idle" =>
            /\ dl'.model_path = dl.model_path
            /\ dl'.model_path = <<>>
      ]_vars

\* A call has failed after a part of the body was written: the part is in
\* the .tmp file and there is no file at the final path.
C28_PartialLeftInTmp ==
    /\ dl.pc = "idle"
    /\ dl.ret = "Err"
    /\ dl.tmp_path = <<[size |-> 1, body |-> 2]>>
    /\ dl.model_path = <<>>

\* C35: the processing task's return to Listening or Idle after STT takes effect
\* only if the state is still Processing: its store of the resting state never
\* overwrites Speaking, stored by a speak call begun while STT was running.
C35_ReturnOnlyFromProcessing ==
    [][(procPc = "fin_store" /\ procPc' = "fin_emit" /\ state = "speaking")
          => state' = "speaking"]_vars

\* C40: no operation moves the state out of Recording other than the processing
\* task's Recording -> Processing store, so that every RecordingStart is followed
\* by the RecordingStop and the STT run of its cycle; in particular a speak call
\* invoked while the state is Recording leaves it Recording.
C40_OnlyProcessingEndsRecording ==
    [][(state = "recording" /\ state' # "recording")
          => (procPc = "rec_store" /\ state' = "processing")]_vars

\* C36: a force-stop request acts only on the recording cycle in which
\* stop_recording observed Recording: when the processing task moves Listening
\* to Recording, no request of an earlier cycle is pending, so the first tick
\* of the VAD-started recording does not find force_stop_recording set.
C36_NoLeftoverForceStop ==
    [][(procPc = "lis_store" /\ procPc' = "lis_emit" /\ state = "listening")
          => ~force_stop_recording]_vars

\* C37: the silence rule counts silence only since the recording began.  When
\* the processing task appends the first chunk of a manual recording (the
\* buffer begin_recording cleared is still empty), the VAD holds no silence
\* timestamp of an earlier tick, so silence_exceeded cannot end the recording
\* on that chunk.
C37_SilenceSinceRecordingBegan ==
    [][(procPc = "rec_append" /\ procPc' = "rec_swap" /\ recording_buf = 0)
          => silence_start' # "Past"]_vars

\* C34: whenever no operation is mid-step (no control call executing, no speak
\* call in progress, the processing task between ticks and no recording cycle
\* under way), the resting state agrees with the mode: Listening only in
\* WakeWord mode, Idle only in PushToTalk or Toggle mode.
C34_RestingStateAgreesWithMode ==
    (/\ ctlPc = "idle"
     /\ procPc = "tick"
     /\ \A s \in Speakers : sp[s].pc = "idle"
     /\ state \in {"idle", "listening"})
        => state = RestState(mode)

\* The recording path while the pipeline is not stopped, scheduled fairly: the
\* runtime runs the processing task whenever it can step, the blocking STT worker
\* returns, a control call runs to its return, and a task waiting for the mode
\* lock gets it once set_mode has released it.
SttFairNext ==
    \/ ProcRun
    \/ StartRecording \/ BeginRecording
    \/ StopRecording \/ StopRecordingStore
    \/ SetMode \/ SetModeLoad \/ SetModeStore \/ SetModeEmit
    \/ CtlReturn

SttFairSpec ==
    /\ RecInit
    /\ [][SttFairNext]_vars
    /\ SF_vars(ProcRun)
    /\ WF_vars(SetModeLoad \/ SetModeStore \/ SetModeEmit)

\* C33: once the processing task has stored Processing, it eventually stores the
\* resting state of the mode it reads after STT (Listening for WakeWord, Idle
\* otherwise) whatever STT returned; a Transcription is emitted in the cycle
\* when STT returned non-empty text and only then; and the recording buffer
\* stays empty from the take to the end of the cycle.
C33_ProcessingReturns ==
    /\ (procPc = "rec_emit") ~> (procPc = "fin_emit")
    /\ (sttOut = "text") ~> obs.heard
    /\ [][/\ (procPc = "fin_mode" /\ procPc' = "fin_store")
                => procNext' = (IF mode = "WakeWord" THEN "listening" ELSE "idle")
          /\ (procPc = "fin_store" /\ procPc' = "fin_emit") => state' = procNext
          /\ (procPc # "fin_mode" /\ procPc' = "fin_mode")
                => (obs'.heard <=> procPc = "stt_emit" /\ sttOut = "text")
          /\ (procPc # "stt_emit" /\ procPc' = "stt_emit")
                => sttOut' \in {"text", "err", "panic", "noengine"}]_vars
    /\ [](obs.heard => procPc \in {"fin_mode", "fin_store", "fin_emit"})
    /\ [](procPc \in {"stt_take", "stt_run", "stt_restore", "stt_emit", "fin_mode",
                      "fin_store", "fin_emit"} => recording_buf = 0)

\* A cycle whose Transcription was emitted has stored Idle as its resting
\* state, the buffer is empty, and the last control call was a set_mode.
C33_ReturnedAfterText ==
    /\ procPc = "fin_emit"
    /\ obs.heard
    /\ stt_engine
    /\ state = "idle"
    /\ procNext = "idle"
    /\ ctlOp = "set_mode"
    /\ recording_buf = 0

\* The terminal events of the finished request are one ToolCalls event that
\* carries a request built from the response text.
TextParsed(t) ==
    LET term == Terminal(t.ev)
    IN  Len(term) = 1 /\ term[1][1] = "ToolCalls" /\ Len(term[1]) = 2

\* C31: a request that ended without error and without native tool calls.  A
\* call parsed from the text is reported only when tools are configured, the
\* provider is not a native one and the text is non-empty; the request then ends
\* with ToolCalls alone, carrying that one call with an id prefixed call_, the
\* full text as response_text and no raw tool calls.  Otherwise it ends with
\* StreamEnd and then Response.
C31_TextParseFallback ==
    LET t == api.task
        term == Terminal(t.ev)
    IN  (/\ t.pc = "done" /\ t.ok /\ t.mark = -1
         /\ ~(t.calls /\ t.finish \in {"tool_calls", "stop"}))
            => IF TextParsed(t)
               THEN /\ t.tools_enabled /\ ~api.native /\ t.full # <<>>
                    /\ Len(term[1][2].calls) = 1
                    /\ term[1][2].calls[1].id[1] = "call_"
                    /\ term[1][2].response_text = t.full
                    /\ term[1][2].raw_tool_calls = <<>>
               ELSE term = << <<"StreamEnd", t.full>>, <<"Response", t.full>> >>

\* The same for requests whose response text is not empty.
C31_FallbackOnText ==
    api.task.full # <<>> => C31_TextParseFallback

\* The stream parser on every body of up to MaxLines lines and every way of
\* cutting it into chunks.
SseNext ==
    SseBegin \/ SseChunk \/ SseEnd

SseSpec == WsInit /\ [][SseNext]_vars

\* C32: whatever the chunks, when the stream has ended the StreamToken texts are
\* the content deltas of the lines of the body that carry the prefix `data: `,
\* in order, the last line included whether or not a line feed follows it, and
\* the response text is those texts put together.
C32_ChunkingIndependent ==
    sse.pc = "ended"
        => /\ sse.tokens = stream_tokens(split_lines(lossy_text(sse.body)))
           /\ sse.full_response = push_all(sse.tokens)

\* The same for bodies whose last line is terminated and that hold no
\* multi-byte character.
C32_TerminatedAscii ==
    (/\ sse.body # <<>>
     /\ sse.body[Len(sse.body)] = "n"
     /\ \A i \in 1..Len(sse.body) : sse.body[i] \notin {"c1", "c2"})
        => C32_ChunkingIndependent

\* C39: on a provider with a system prompt, the history that the send path
\* leaves after limit_message_history is the system prompt followed by at most
\* 20 further messages, whatever user turns and tool rounds came before.
C39_HistoryStaysBounded ==
    (/\ api.op \in {"send_input", "send_empty", "inject"}
     /\ api.running
     /\ api.system_prompt)
        => /\ api.messages # <<>>
           /\ api.messages[1].role = "system"
           /\ Len(api.messages) <= 1 + MAX_HISTORY_MESSAGES

\* A first trim on a provider with a system prompt: the history left is the
\* system prompt followed by at most 20 further messages.
C39_FirstTrimBounded ==
    (/\ api.op \in {"send_input", "send_empty", "inject"}
     /\ api.running
     /\ api.system_prompt
     /\ SystemRun(api.pre) <= 1)
        => /\ api.messages # <<>>
           /\ api.messages[1].role = "system"
           /\ Len(api.messages) <= 1 + MAX_HISTORY_MESSAGES

\* C38: a request that an entry of the send path replaced while it was still
\* streaming is stopped: after the new request has started, the earlier task
\* reads no further chunk and sends no further event.
C38_EarlierRequestStopped ==
    api.late = 0

====
